---- MODULE Spec2Model ----
\* Date resolution and merge engine of calendario-laboral-espana:
\*   - scrape_festivos_completos (src/scrape_municipio.py): the three collection
\*     steps, the de-duplication by date with priority, the sort and the
\*     substitution removal;
\*   - the relative date calculator (src/scrapers/utils/date_calculator.py).
EXTENDS Integers, Sequences, FiniteSets, TLC

VARIABLES
    pc,               \* position inside scrape_festivos_completos
    ccaa,             \* argument ccaa
    year,             \* argument year
    festivos_todos,   \* the accumulating list, later the merged list
    festivos_unicos,  \* the dict fecha -> festivo, as its values in insertion order
    capas,            \* what each collector returned (history)
    errores,          \* the collection steps whose try block caught an exception
    segunda,          \* the merged list after it went through the merge steps again
    previo,           \* the sorted list as it stood before the substitution step
    texto,            \* argument texto of the date calculator
    resultado,        \* what the date calculator returned
    _cached_festivos, \* self._cached_festivos of a BasePDFParser instance
    contadores,       \* calls made on the instance, runs of _load_pdf and _parse_text, parses
                      \* completed, and runs made while the cache was set (history)
    retorno,          \* what the last call on the instance returned or raised
    primer_parse      \* what the first parse that did not raise returned (history)

vars == <<pc, ccaa, year, festivos_todos, festivos_unicos, capas, errores,
          segunda, previo, texto, resultado, _cached_festivos, contadores,
          retorno, primer_parse>>

calcVars == <<texto, resultado>>

parserVars == <<_cached_festivos, contadores, retorno, primer_parse>>

----------------------------------------------------------------------------
\* Bounds of the model

\* longest list the national step returns
MaxNacionales == 2

\* longest list the regional step returns
MaxAutonomicos == 1

\* longest list the local step returns
MaxLocales == 1

\* last year the date calculator is asked about
MaxAnio == 2030

\* most rows of a table of the BON
MaxFilas == 2

\* most calls made on one BasePDFParser instance
MaxLlamadas == 3

----------------------------------------------------------------------------
\* Records and their 'fecha'

\* An ISO date string 'YYYY-MM-DD' is the tuple <<y, m, d>>: the fields are
\* zero-padded, so comparing the strings is comparing the tuples field by field.
FechaMenor(a, b) ==
    \/ a[1] < b[1]
    \/ a[1] = b[1] /\ a[2] < b[2]
    \/ a[1] = b[1] /\ a[2] = b[2] /\ a[3] < b[3]

\* str.lower() on the region codes and the month words the model passes in
Lower(s) ==
    CASE s = "CANARIAS" -> "canarias"
      [] s = "Canarias" -> "canarias"
      [] s = "MAYO" -> "mayo"
      [] s = "Mayo" -> "mayo"
      [] OTHER -> s

\* prioridad = {'local': 3, 'nacional': 2, 'autonomico': 1}; prioridad.get(tipo, 0)
Prioridad(tipo) ==
    CASE tipo = "local" -> 3
      [] tipo = "nacional" -> 2
      [] tipo = "autonomico" -> 1
      [] OTHER -> 0

\* festivo.get('tipo', 'nacional'): a record without the key has tipo = "" here
TipoDe(festivo) == IF festivo.tipo = "" THEN "nacional" ELSE festivo.tipo

\* position of the key fecha in the dict, 0 when it is not a key
IndiceDe(unicos, fecha) ==
    IF \E i \in 1..Len(unicos) : unicos[i].fecha = fecha
    THEN CHOOSE i \in 1..Len(unicos) : unicos[i].fecha = fecha
    ELSE 0

\* the replacement test of the de-duplication loop
MutReemplazaIgual(actual, existente) ==
    Prioridad(TipoDe(actual)) >= Prioridad(TipoDe(existente))

MutReemplazaMenor(actual, existente) ==
    Prioridad(TipoDe(actual)) < Prioridad(TipoDe(existente))

Reemplaza(actual, existente) ==
    Prioridad(TipoDe(actual)) > Prioridad(TipoDe(existente))

\* one iteration of the loop: a new key is appended, an existing key keeps its
\* place in the dict and its value is replaced only by a higher priority
MutInsertarSiempre(unicos, festivo) == Append(unicos, festivo)

\* a loop that edits the stored record instead of replacing it
MutInsertarEditando(unicos, festivo) ==
    LET pos == IndiceDe(unicos, festivo.fecha)
    IN  IF pos = 0 THEN Append(unicos, festivo)
        ELSE IF Reemplaza(festivo, unicos[pos])
             THEN [unicos EXCEPT ![pos].tipo = festivo.tipo]
             ELSE unicos

Insertar(unicos, festivo) ==
    LET pos == IndiceDe(unicos, festivo.fecha)
    IN  IF pos = 0 THEN Append(unicos, festivo)
        ELSE IF Reemplaza(festivo, unicos[pos])
             THEN [unicos EXCEPT ![pos] = festivo]
             ELSE unicos

RECURSIVE Deduplicar(_, _)
Deduplicar(todos, unicos) ==
    IF todos = <<>> THEN unicos
    ELSE Deduplicar(Tail(todos), Insertar(unicos, Head(todos)))

\* sorted(values, key=lambda x: x['fecha']): stable, ascending
RECURSIVE InsertarOrdenado(_, _)
InsertarOrdenado(ordenados, f) ==
    IF ordenados = <<>> THEN <<f>>
    ELSE IF FechaMenor(f.fecha, Head(ordenados).fecha)
         THEN <<f>> \o ordenados
         ELSE <<Head(ordenados)>> \o InsertarOrdenado(Tail(ordenados), f)

RECURSIVE OrdenarDesde(_, _)
OrdenarDesde(lista, ordenados) ==
    IF lista = <<>> THEN ordenados
    ELSE OrdenarDesde(Tail(lista), InsertarOrdenado(ordenados, Head(lista)))

MutSinOrdenar(lista) == lista

MutInvertir(lista) == [i \in 1..Len(lista) |-> lista[Len(lista) + 1 - i]]

OrdenarPorFecha(lista) == OrdenarDesde(lista, <<>>)

\* festivos_sustituidos for (ccaa, year)
MutSustituidosNunca(c, y) == {}

FestivosSustituidos(c, y) ==
    IF Lower(c) = "canarias"
    THEN (IF y = 2025 THEN {<<2025, 10, 12>>} ELSE {})
    ELSE {}

\* [f for f in festivos_todos if f['fecha'] not in festivos_sustituidos]
MutFiltrarAlReves(lista, sustituidos) ==
    SelectSeq(lista, LAMBDA f : f.fecha \in sustituidos)

Filtrar(lista, sustituidos) ==
    SelectSeq(lista, LAMBDA f : f.fecha \notin sustituidos)

----------------------------------------------------------------------------
\* Inputs of the merge

\* the (ccaa, year) requests: each branch of the substitution step, and a
\* region code that is not in lower case
Solicitudes ==
    {<<"canarias", 2025>>, <<"Canarias", 2025>>, <<"canarias", 2026>>, <<"madrid", 2025>>}

\* the dates the collectors report, in the requested year
FechasDe(y) == {<<y, 1, 6>>, <<y, 5, 30>>, <<y, 10, 12>>}

\* the date that replaces 2025-10-12 in Canarias
FechaReemplazo == <<2025, 5, 30>>

FechaSustituida == <<2025, 10, 12>>

\* tipos each step's records carry
TiposNacionales == {"nacional", "autonomico"}

TiposAutonomicos == {"autonomico"}

TiposLocales == {"local"}

\* the lists a collector may return: up to max records, each marked with the
\* step and the position it came from
ListasDe(capa, tipos, y, max) ==
    UNION { { [i \in 1..n |-> [fecha |-> fs[i], tipo |-> ts[i], origen |-> <<capa, i>>]] :
                fs \in [1..n -> FechasDe(y)], ts \in [1..n -> tipos] } : n \in 0..max }

----------------------------------------------------------------------------
\* scrape_festivos_completos

NingunTexto == [familia |-> "ninguna"]

Pendiente == [estado |-> "pendiente"]

\* no BasePDFParser instance is in use
SinParser ==
    /\ _cached_festivos = [ok |-> FALSE]
    /\ contadores = [llamadas |-> 0, cargas |-> 0, parseos |-> 0, exitos |-> 0,
                     con_cache |-> 0]
    /\ retorno = Pendiente
    /\ primer_parse = [ok |-> FALSE]

Init ==
    /\ pc = "nacionales"
    /\ \E s \in Solicitudes : ccaa = s[1] /\ year = s[2]
    /\ festivos_todos = <<>>
    /\ festivos_unicos = <<>>
    /\ capas = [nac |-> <<>>, aut |-> <<>>, loc |-> <<>>]
    /\ errores = {}
    /\ segunda = <<>>
    /\ previo = <<>>
    /\ texto = NingunTexto
    /\ resultado = Pendiente
    /\ SinParser

\* PASO 1/3: the try block ends normally. The call is BOEScraper(year=year,
\* ccaa=ccaa); the list it returns also carries the regional rows of the BOE
\* table ("los autonómicos ya vienen de la tabla BOE"). The BOEScraper class
\* under scrapers/core declares __init__(self, year) only, and with that class
\* the call raises TypeError, which is the outcome PasoNacionalesError.
PasoNacionales ==
    /\ pc = "nacionales"
    /\ \E lista \in ListasDe("nac", TiposNacionales, year, MaxNacionales) :
          /\ festivos_todos' = festivos_todos \o lista
          /\ capas' = [capas EXCEPT !.nac = lista]
    /\ pc' = "autonomicos"
    /\ UNCHANGED <<ccaa, year, festivos_unicos, errores, segunda, previo, calcVars, parserVars>>

\* PASO 1/3: the try block raises, the except prints and goes on
PasoNacionalesError ==
    /\ pc = "nacionales"
    /\ errores' = errores \cup {"nacionales"}
    /\ pc' = "autonomicos"
    /\ UNCHANGED <<ccaa, year, festivos_todos, festivos_unicos, capas, segunda,
                   previo, calcVars, parserVars>>

\* PASO 2/3
PasoAutonomicos ==
    /\ pc = "autonomicos"
    /\ \E lista \in ListasDe("aut", TiposAutonomicos, year, MaxAutonomicos) :
          /\ festivos_todos' = festivos_todos \o lista
          /\ capas' = [capas EXCEPT !.aut = lista]
    /\ pc' = "locales"
    /\ UNCHANGED <<ccaa, year, festivos_unicos, errores, segunda, previo, calcVars, parserVars>>

\* an except block that would throw away what the earlier steps gathered
MutErrorVaciaLista ==
    /\ pc = "autonomicos"
    /\ errores' = errores \cup {"autonomicos"}
    /\ festivos_todos' = <<>>
    /\ pc' = "locales"
    /\ UNCHANGED <<ccaa, year, festivos_unicos, capas, segunda, previo, calcVars, parserVars>>

PasoAutonomicosError ==
    /\ pc = "autonomicos"
    /\ errores' = errores \cup {"autonomicos"}
    /\ pc' = "locales"
    /\ UNCHANGED <<ccaa, year, festivos_todos, festivos_unicos, capas, segunda,
                   previo, calcVars, parserVars>>

\* PASO 3/3
PasoLocales ==
    /\ pc = "locales"
    /\ \E lista \in ListasDe("loc", TiposLocales, year, MaxLocales) :
          /\ festivos_todos' = festivos_todos \o lista
          /\ capas' = [capas EXCEPT !.loc = lista]
    /\ pc' = "deduplicar"
    /\ UNCHANGED <<ccaa, year, festivos_unicos, errores, segunda, previo, calcVars, parserVars>>

PasoLocalesError ==
    /\ pc = "locales"
    /\ errores' = errores \cup {"locales"}
    /\ pc' = "deduplicar"
    /\ UNCHANGED <<ccaa, year, festivos_todos, festivos_unicos, capas, segunda,
                   previo, calcVars, parserVars>>

\* the loop over festivos_todos that fills festivos_unicos
EliminarDuplicados ==
    /\ pc = "deduplicar"
    /\ festivos_unicos' = Deduplicar(festivos_todos, <<>>)
    /\ pc' = "ordenar"
    /\ UNCHANGED <<ccaa, year, festivos_todos, capas, errores, segunda, previo,
                   calcVars, parserVars>>

\* festivos_todos = sorted(festivos_unicos.values(), key=fecha)
Ordenar ==
    /\ pc = "ordenar"
    /\ festivos_todos' = OrdenarPorFecha(festivos_unicos)
    /\ pc' = "sustituir"
    /\ UNCHANGED <<ccaa, year, festivos_unicos, capas, errores, segunda, previo, calcVars, parserVars>>

\* Gestionar sustituciones por CCAA
Sustituir ==
    /\ pc = "sustituir"
    /\ LET sustituidos == FestivosSustituidos(ccaa, year)
       IN  festivos_todos' = IF sustituidos # {}
                             THEN Filtrar(festivos_todos, sustituidos)
                             ELSE festivos_todos
    /\ previo' = festivos_todos
    /\ pc' = "done"
    /\ UNCHANGED <<ccaa, year, festivos_unicos, capas, errores, segunda, calcVars, parserVars>>

\* lines 103-136 as one function of the list, the region and the year
Fusionar(lista, c, y) ==
    LET ordenados == OrdenarPorFecha(Deduplicar(lista, <<>>))
        sustituidos == FestivosSustituidos(c, y)
    IN  IF sustituidos # {} THEN Filtrar(ordenados, sustituidos) ELSE ordenados

\* the returned 'festivos' go through the same steps once more
Realimentar ==
    /\ pc = "done"
    /\ segunda' = Fusionar(festivos_todos, ccaa, year)
    /\ pc' = "done2"
    /\ UNCHANGED <<ccaa, year, festivos_todos, festivos_unicos, capas, errores, previo,
                   calcVars, parserVars>>

Next ==
    \/ PasoNacionales
    \/ PasoNacionalesError
    \/ PasoAutonomicos
    \/ PasoAutonomicosError
    \/ PasoLocales
    \/ PasoLocalesError
    \/ EliminarDuplicados
    \/ Ordenar
    \/ Sustituir
    \/ Realimentar

Spec == Init /\ [][Next]_vars

----------------------------------------------------------------------------
\* Calendar arithmetic of datetime / timedelta / calendar

EsBisiesto(y) == y % 4 = 0 /\ (y % 100 # 0 \/ y % 400 = 0)

DiasDelMes(y, m) ==
    IF m = 2 THEN (IF EsBisiesto(y) THEN 29 ELSE 28)
    ELSE IF m \in {4, 6, 9, 11} THEN 30 ELSE 31

\* datetime(y, m, d) raises ValueError unless this holds
FechaValida(y, m, d) == m \in 1..12 /\ d >= 1 /\ d <= DiasDelMes(y, m)

DiasAntesDeAnio(y) ==
    (y - 1) * 365 + (y - 1) \div 4 - (y - 1) \div 100 + (y - 1) \div 400

DiasAntesDeMes(y, m) ==
    <<0, 31, 59, 90, 120, 151, 181, 212, 243, 273, 304, 334>>[m]
        + (IF m > 2 /\ EsBisiesto(y) THEN 1 ELSE 0)

\* date.toordinal()
AOrdinal(f) == DiasAntesDeAnio(f[1]) + DiasAntesDeMes(f[1], f[2]) + f[3]

\* date.fromordinal(n)
DesdeOrdinal(n) ==
    LET n0   == n - 1
        n400 == n0 \div 146097
        r400 == n0 % 146097
        n100 == r400 \div 36524
        r100 == r400 % 36524
        n4   == r100 \div 1461
        r4   == r100 % 1461
        n1   == r4 \div 365
        r1   == r4 % 365
        y    == n400 * 400 + 1 + n100 * 100 + n4 * 4 + n1
    IN  IF n1 = 4 \/ n100 = 4 THEN <<y - 1, 12, 31>>
        ELSE LET m0   == (r1 + 50) \div 32
                 prec == DiasAntesDeMes(y, m0)
                 m    == IF prec > r1 THEN m0 - 1 ELSE m0
             IN  <<y, m, r1 - DiasAntesDeMes(y, m) + 1>>

\* fecha + timedelta(days=k)
MasDias(f, k) == DesdeOrdinal(AOrdinal(f) + k)

\* date.weekday(): 0 = lunes ... 6 = domingo
Weekday(f) == (AOrdinal(f) + 6) % 7

\* dateutil.easter.easter(year), the western method
calcular_pascua(y) ==
    LET g == y % 19
        c == y \div 100
        h == (c - c \div 4 - (8 * c + 13) \div 25 + 19 * g + 15) % 30
        i == h - (h \div 28) * (1 - (h \div 28) * (29 \div (h + 1)) * ((21 - g) \div 11))
        j == (y + y \div 4 + i + 2 - c + c \div 4) % 7
        p == i - j
        d == 1 + ((p + 27 + (p + 6) \div 40) % 31)
        m == 3 + (p + 26) \div 30
    IN  <<y, m, d>>

\* calendar.monthcalendar(y, m): the weeks of the month, Monday first, 0 for
\* the days of the week that lie outside the month
MonthCalendar(y, m) ==
    LET w1 == Weekday(<<y, m, 1>>)
        n  == DiasDelMes(y, m)
        semanas == (w1 + n + 6) \div 7
    IN  [s \in 1..semanas |->
            [c \in 0..6 |->
                LET dd == 7 * (s - 1) + c - w1 + 1
                IN  IF dd >= 1 /\ dd <= n THEN dd ELSE 0]]

----------------------------------------------------------------------------
\* The tables and patterns of date_calculator.py

Ninguno == [ok |-> FALSE]

Fecha(f, metodo) == [ok |-> TRUE, fecha |-> f, metodo |-> metodo]

DIAS_SEMANA ==
    [w \in {"lunes", "martes", "miércoles", "miercoles", "jueves", "viernes",
            "sábado", "sabado", "domingo"} |->
        CASE w = "lunes" -> 0
          [] w = "martes" -> 1
          [] w \in {"miércoles", "miercoles"} -> 2
          [] w = "jueves" -> 3
          [] w = "viernes" -> 4
          [] w \in {"sábado", "sabado"} -> 5
          [] w = "domingo" -> 6]

ORDINALES ==
    [o \in {"primer", "primero", "primera", "segundo", "segunda", "tercer", "tercero",
            "tercera", "cuarto", "cuarta", "quinto", "quinta", "último", "ultima",
            "penúltimo", "penultimo"} |->
        CASE o \in {"primer", "primero", "primera"} -> 1
          [] o \in {"segundo", "segunda"} -> 2
          [] o \in {"tercer", "tercero", "tercera"} -> 3
          [] o \in {"cuarto", "cuarta"} -> 4
          [] o \in {"quinto", "quinta"} -> 5
          [] o \in {"último", "ultima"} -> 0 - 1
          [] o \in {"penúltimo", "penultimo"} -> 0 - 2]

MESES ==
    [m \in {"enero", "febrero", "marzo", "abril", "mayo", "junio", "julio", "agosto",
            "septiembre", "setiembre", "octubre", "noviembre", "diciembre"} |->
        CASE m = "enero" -> 1
          [] m = "febrero" -> 2
          [] m = "marzo" -> 3
          [] m = "abril" -> 4
          [] m = "mayo" -> 5
          [] m = "junio" -> 6
          [] m = "julio" -> 7
          [] m = "agosto" -> 8
          [] m \in {"septiembre", "setiembre"} -> 9
          [] m = "octubre" -> 10
          [] m = "noviembre" -> 11
          [] m = "diciembre" -> 12]

\* SANTORAL: saint -> <<month, day>>
SANTORAL ==
    [s \in {"san lucas", "san francisco javier", "san josé", "santa lucía", "san juan",
            "san pedro", "santiago", "san martín", "san andrés"} |->
        CASE s = "san lucas" -> <<10, 18>>
          [] s = "san francisco javier" -> <<12, 3>>
          [] s = "san josé" -> <<3, 19>>
          [] s = "santa lucía" -> <<12, 13>>
          [] s = "san juan" -> <<6, 24>>
          [] s = "san pedro" -> <<6, 29>>
          [] s = "santiago" -> <<7, 25>>
          [] s = "san martín" -> <<11, 11>>
          [] s = "san andrés" -> <<11, 30>>]

\* the weekday alternation of every pattern
PatronDias == DOMAIN DIAS_SEMANA

\* the ordinal alternation of the simple pattern
PatronOrdinalesSimple == DOMAIN ORDINALES

\* the ordinal alternation of the compound pattern
PatronOrdinalesCompuesto ==
    {"primer", "primero", "primera", "segundo", "segunda", "tercer", "tercero",
     "tercera", "cuarto", "cuarta", "último", "ultima"}

\* A text is the record of its lower-cased words:
\*   compuesto: "<objetivo> <modificador> al <ordinal> <dia> de <mes>"
\*   simple:    "<ordinal> <dia> de <mes>"
\*   liturgico: "<dia> de <fiesta>", or "<fiesta>" alone when dia = ""
\*   santoral:  "<objetivo> <conector> <modificador> a <santo>"
\*   otro:      a text none of the patterns is about

\* re.search of the simple pattern finds "<ordinal> <dia> de <mes>"
CoincideSimple(t) ==
    /\ t.forma \in {"simple", "compuesto"}
    /\ t.ordinal \in PatronOrdinalesSimple
    /\ t.dia \in PatronDias

\* re.search of the compound pattern
CoincideCompuesto(t) ==
    /\ t.forma = "compuesto"
    /\ t.objetivo \in PatronDias
    /\ t.modificador \in {"anterior", "siguiente"}
    /\ t.ordinal \in PatronOrdinalesCompuesto
    /\ t.dia \in PatronDias

----------------------------------------------------------------------------
\* The functions of date_calculator.py

RECURSIVE DiasDeLaColumna(_, _, _)
\* the loop "for semana in cal": the days of the column that are not 0
DiasDeLaColumna(cal, dia_semana, s) ==
    IF s > Len(cal) THEN <<>>
    ELSE (IF cal[s][dia_semana] # 0 THEN <<cal[s][dia_semana]>> ELSE <<>>)
            \o DiasDeLaColumna(cal, dia_semana, s + 1)

\* lista[n] of Python for a list held as a sequence
Indice(lista, n) == IF n >= 0 THEN lista[n + 1] ELSE lista[Len(lista) + n + 1]

Abs(n) == IF n < 0 THEN 0 - n ELSE n

MutNthSinComprobar(y, month, dia_semana, n) ==
    IF ~(1 <= month /\ month <= 12) THEN Ninguno
    ELSE IF ~(0 <= dia_semana /\ dia_semana <= 6) THEN Ninguno
    ELSE LET w1 == Weekday(<<y, month, 1>>)
             primero == 1 + ((dia_semana - w1) % 7)
             veces == (DiasDelMes(y, month) - primero) \div 7 + 1
         IN  IF n > 0 THEN Fecha(MasDias(<<y, month, primero>>, 7 * (n - 1)), <<>>)
             ELSE Fecha(MasDias(<<y, month, primero>>, 7 * (veces + n)), <<>>)

MutNthSemanaDelCalendario(y, month, dia_semana, n) ==
    IF ~(1 <= month /\ month <= 12) THEN Ninguno
    ELSE IF ~(0 <= dia_semana /\ dia_semana <= 6) THEN Ninguno
    ELSE LET cal == MonthCalendar(y, month)
         IN  IF n > 0 /\ n <= Len(cal) /\ cal[n][dia_semana] # 0
             THEN Fecha(<<y, month, cal[n][dia_semana]>>, <<>>)
             ELSE IF n <= 0 /\ Abs(n) <= Len(cal) /\ Indice(cal, n)[dia_semana] # 0
             THEN Fecha(<<y, month, Indice(cal, n)[dia_semana]>>, <<>>)
             ELSE Ninguno

obtener_nth_dia_semana_del_mes(y, month, dia_semana, n) ==
    IF ~(1 <= month /\ month <= 12) THEN Ninguno
    ELSE IF ~(0 <= dia_semana /\ dia_semana <= 6) THEN Ninguno
    ELSE LET dias_del_mes == DiasDeLaColumna(MonthCalendar(y, month), dia_semana, 1)
         IN  IF n > 0
             THEN (IF n <= Len(dias_del_mes)
                   THEN Fecha(<<y, month, dias_del_mes[n]>>, <<>>)
                   ELSE Ninguno)
             ELSE (IF Abs(n) <= Len(dias_del_mes)
                   THEN Fecha(<<y, month, Indice(dias_del_mes, n)>>, <<>>)
                   ELSE Ninguno)

calcular_ordinal_simple(y, t) ==
    IF ~CoincideSimple(t) THEN Ninguno
    ELSE IF t.mes \notin DOMAIN MESES THEN Ninguno
    ELSE LET fecha == obtener_nth_dia_semana_del_mes(
                          y, MESES[t.mes], DIAS_SEMANA[t.dia], ORDINALES[t.ordinal])
         IN  IF fecha.ok
             THEN Fecha(fecha.fecha, <<"ordinal_simple", t.ordinal, t.dia, t.mes>>)
             ELSE Ninguno

\* the walk to the weekday dia_objetivo after or before fecha_base
Desplazar(fecha_base, dia_objetivo, adelante) ==
    IF adelante
    THEN LET dias_adelante == (dia_objetivo - Weekday(fecha_base)) % 7
         IN  MasDias(fecha_base, IF dias_adelante = 0 THEN 7 ELSE dias_adelante)
    ELSE LET dias_atras == (Weekday(fecha_base) - dia_objetivo) % 7
         IN  MasDias(fecha_base, 0 - (IF dias_atras = 0 THEN 7 ELSE dias_atras))

calcular_ordinal_compuesto(y, t) ==
    IF ~CoincideCompuesto(t) THEN Ninguno
    ELSE IF t.mes \notin DOMAIN MESES THEN Ninguno
    ELSE LET fecha_base == obtener_nth_dia_semana_del_mes(
                               y, MESES[t.mes], DIAS_SEMANA[t.dia], ORDINALES[t.ordinal])
         IN  IF ~fecha_base.ok THEN Ninguno
             ELSE Fecha(Desplazar(fecha_base.fecha, DIAS_SEMANA[t.objetivo],
                                  t.modificador = "siguiente"),
                        <<"ordinal_compuesto", t.objetivo, t.modificador, t.ordinal,
                          t.dia, t.mes>>)

calcular_carnaval(y, dia_semana) ==
    LET miercoles_ceniza == MasDias(calcular_pascua(y), 0 - 46)
        dias_antes ==
            [d \in {"domingo", "lunes", "martes", "miércoles", "jueves", "viernes",
                    "sábado"} |->
                CASE d = "domingo" -> 2
                  [] d = "lunes" -> 1
                  [] d = "martes" -> 0
                  [] d = "miércoles" -> 0 - 1
                  [] d = "jueves" -> 3
                  [] d = "viernes" -> 4
                  [] d = "sábado" -> 5]
    IN  IF dia_semana \notin DOMAIN dias_antes THEN Ninguno
        ELSE Fecha(MasDias(miercoles_ceniza, 0 - dias_antes[dia_semana]), <<>>)

MutPentecostesDocstring(y, dia) ==
    IF dia \in {"domingo", "pentecostés", "pentecostes"}
    THEN Fecha(MasDias(calcular_pascua(y), 50), <<>>)
    ELSE IF dia = "lunes" THEN Fecha(MasDias(calcular_pascua(y), 51), <<>>)
    ELSE IF dia \in {"segundo día", "segundo dia", "martes"}
    THEN Fecha(MasDias(calcular_pascua(y), 52), <<>>)
    ELSE Ninguno

calcular_pentecostes(y, dia) ==
    IF dia \in {"domingo", "pentecostés", "pentecostes"}
    THEN Fecha(MasDias(calcular_pascua(y), 49), <<>>)
    ELSE IF dia = "lunes" THEN Fecha(MasDias(calcular_pascua(y), 50), <<>>)
    ELSE IF dia \in {"segundo día", "segundo dia", "martes"}
    THEN Fecha(MasDias(calcular_pascua(y), 51), <<>>)
    ELSE Ninguno

calcular_ascension(y) == MasDias(calcular_pascua(y), 39)

calcular_corpus_christi(y) == MasDias(calcular_pascua(y), 60)

\* the substring tests of calcular_liturgico on "<dia> de <fiesta>"
Contiene(t, palabra) ==
    /\ t.forma = "liturgico"
    /\ \/ t.dia = palabra
       \/ t.fiesta = palabra

calcular_liturgico(y, t) ==
    LET carnaval ==
            IF Contiene(t, "carnaval") /\ t.dia \in PatronDias
            THEN calcular_carnaval(y, t.dia)
            ELSE Ninguno
    IN  IF carnaval.ok THEN Fecha(carnaval.fecha, <<"liturgico_carnaval", t.dia>>)
        ELSE IF Contiene(t, "pentecostés") \/ Contiene(t, "pentecostes")
        THEN (IF Contiene(t, "segundo día") \/ Contiene(t, "segundo dia")
              THEN Fecha(calcular_pentecostes(y, "segundo día").fecha,
                         <<"liturgico_pentecostes", "segundo día">>)
              ELSE IF Contiene(t, "lunes")
              THEN Fecha(calcular_pentecostes(y, "lunes").fecha,
                         <<"liturgico_pentecostes", "lunes">>)
              ELSE Fecha(calcular_pentecostes(y, "domingo").fecha,
                         <<"liturgico_pentecostes", "domingo">>))
        ELSE IF Contiene(t, "ascensión") \/ Contiene(t, "ascension")
        THEN Fecha(calcular_ascension(y), <<"liturgico_ascension">>)
        ELSE IF Contiene(t, "corpus")
        THEN Fecha(calcular_corpus_christi(y), <<"liturgico_corpus">>)
        ELSE Ninguno

\* the name the santoral pattern captures: (san|santa)\s+(\w+), one word
SantoCapturado(santo) ==
    CASE santo = "san francisco javier" -> "san francisco"
      [] santo = "santiago" -> ""
      [] OTHER -> santo

calcular_santoral_relativo(y, t) ==
    IF ~( /\ t.forma = "santoral"
          /\ t.objetivo \in PatronDias
          /\ t.conector \in {"de la semana", "de la"}
          /\ t.modificador \in {"siguiente", "posterior", "anterior"}
          /\ SantoCapturado(t.santo) # "" )
    THEN Ninguno
    ELSE LET santo_completo == SantoCapturado(t.santo)
         IN  IF santo_completo \notin DOMAIN SANTORAL THEN Ninguno
             ELSE LET fecha_santo == SANTORAL[santo_completo]
                      fecha_base == <<y, fecha_santo[1], fecha_santo[2]>>
                  IN  Fecha(Desplazar(fecha_base, DIAS_SEMANA[t.objetivo],
                                      t.modificador \in {"siguiente", "posterior"}),
                            <<"santoral_relativo", t.objetivo, t.modificador,
                              santo_completo>>)

calcular_fecha_relativa(y, t) ==
    LET compuesto == calcular_ordinal_compuesto(y, t)
        simple    == calcular_ordinal_simple(y, t)
        liturgico == calcular_liturgico(y, t)
        santoral  == calcular_santoral_relativo(y, t)
    IN  IF compuesto.ok THEN compuesto
        ELSE IF simple.ok THEN simple
        ELSE IF liturgico.ok THEN liturgico
        ELSE IF santoral.ok THEN santoral
        ELSE Ninguno

----------------------------------------------------------------------------
\* The fixed-date parsers: BaseScraper.parse_fecha_espanol and
\* BasePDFParser._parsear_fecha / _crear_festivo
\*
\* A fixed-date text is the record of its parts,
\*   fija: "<digitos> [de] <mes> [<descripcion>]"
\* where digitos is the run of decimal digits as written (a sequence of digits,
\* leading zeros included), de tells whether the word "de" is there, mes is the
\* word after it as written and descripcion is the rest of the line.

\* a call that ends in an exception the function does not catch
Lanza(excepcion) == [ok |-> FALSE, excepcion |-> excepcion]

\* the digits without the leading zeros; "0" stays "0"
RECURSIVE SinCeros(_)
SinCeros(ds) ==
    IF Len(ds) > 1 /\ Head(ds) = 0 THEN SinCeros(Tail(ds)) ELSE ds

\* the largest value of a C int, which datetime() converts its arguments to
MaxIntC == <<2, 1, 4, 7, 4, 8, 3, 6, 4, 7>>

\* a < b for two digit runs of the same length
RECURSIVE DigitosMenor(_, _)
DigitosMenor(a, b) ==
    IF a = <<>> THEN FALSE
    ELSE IF Head(a) # Head(b) THEN Head(a) < Head(b)
    ELSE DigitosMenor(Tail(a), Tail(b))

\* the number the digits write fits a C int
CabeEnIntC(ds) ==
    LET n == SinCeros(ds)
    IN  \/ Len(n) < Len(MaxIntC)
        \/ Len(n) = Len(MaxIntC) /\ ~DigitosMenor(MaxIntC, n)

\* int(match.group(1)) for a run of digits that fits a C int
RECURSIVE ValorDe(_)
ValorDe(ds) ==
    IF ds = <<>> THEN 0
    ELSE 10 * ValorDe(SubSeq(ds, 1, Len(ds) - 1)) + ds[Len(ds)]

\* str(n), the decimal digits of n >= 0
RECURSIVE Digitos(_)
Digitos(n) == IF n < 10 THEN <<n>> ELSE Append(Digitos(n \div 10), n % 10)

\* the format specs %Y, %m, %d and :02d: the digits of n, with zeros on the
\* left up to the width
MutSinRelleno(n, ancho) == Digitos(n)

Rellenar(n, ancho) ==
    LET ds == Digitos(n)
    IN  IF Len(ds) >= ancho THEN ds ELSE [i \in 1..(ancho - Len(ds)) |-> 0] \o ds

\* fecha.strftime('%Y-%m-%d'): the three fields of the ISO string
Strftime(f) == <<Rellenar(f[1], 4), Rellenar(f[2], 2), Rellenar(f[3], 2)>>

\* the dict meses of parse_fecha_espanol
meses ==
    [m \in {"enero", "febrero", "marzo", "abril", "mayo", "junio", "julio", "agosto",
            "septiembre", "octubre", "noviembre", "diciembre"} |->
        CASE m = "enero" -> 1
          [] m = "febrero" -> 2
          [] m = "marzo" -> 3
          [] m = "abril" -> 4
          [] m = "mayo" -> 5
          [] m = "junio" -> 6
          [] m = "julio" -> 7
          [] m = "agosto" -> 8
          [] m = "septiembre" -> 9
          [] m = "octubre" -> 10
          [] m = "noviembre" -> 11
          [] m = "diciembre" -> 12]

\* the search of (\d+)\s+(?:de\s+)?(\w+) finds the digits and the month word
\* of a fixed-date text, with or without "de", whatever follows.
\* datetime(self.year, mes, dia) raises ValueError for a day that is not in the
\* month, which the except clause turns into None, and OverflowError for a day
\* that does not fit a C int, which "except ValueError" does not catch.
parse_fecha_espanol(y, t) ==
    IF t.forma # "fija" THEN Ninguno
    ELSE LET mes_texto == Lower(t.mes)
         IN  IF mes_texto \notin DOMAIN meses THEN Ninguno
             ELSE IF ~CabeEnIntC(t.digitos) THEN Lanza("OverflowError")
             ELSE LET dia == ValorDe(t.digitos)
                      mes == meses[mes_texto]
                  IN  IF FechaValida(y, mes, dia)
                      THEN [ok |-> TRUE,
                            fecha |-> Strftime(<<y, mes, dia>>),
                            fecha_texto |-> [dia |-> Digitos(dia), mes |-> mes_texto]]
                      ELSE Ninguno

\* BasePDFParser.MESES
BasePDFParser_MESES ==
    [m \in {"enero", "febrero", "marzo", "abril", "mayo", "junio", "julio", "agosto",
            "septiembre", "octubre", "noviembre", "diciembre"} |->
        CHOOSE i \in 1..12 :
            <<"enero", "febrero", "marzo", "abril", "mayo", "junio", "julio", "agosto",
              "septiembre", "octubre", "noviembre", "diciembre">>[i] = m]

_es_fecha_valida(dia, mes_nombre) ==
    mes_nombre \in DOMAIN BasePDFParser_MESES /\ 1 <= dia /\ dia <= 31

\* the match of ^(\d{1,2})\s+(?:de\s+)?(\w+)\s*(.*)$ needs one or two digits;
\* the description is the rest of the line without the blanks around it
_parsear_fecha(t) ==
    IF t.forma # "fija" \/ Len(t.digitos) \notin {1, 2} THEN Ninguno
    ELSE LET dia == ValorDe(t.digitos)
             mes_nombre == Lower(t.mes)
             descripcion == t.descripcion
         IN  IF _es_fecha_valida(dia, mes_nombre)
             THEN [ok |-> TRUE, dia |-> dia, mes |-> BasePDFParser_MESES[mes_nombre],
                   descripcion |-> descripcion]
             ELSE Ninguno

\* 'fecha' is f'{self.year}-{mes:02d}-{dia:02d}', 'fecha_texto' f'{dia} de {mes_nombre}'
_crear_festivo(y, dia, mes, descripcion) ==
    LET mes_nombre == CHOOSE k \in DOMAIN BasePDFParser_MESES : BasePDFParser_MESES[k] = mes
    IN  [fecha |-> <<Digitos(y), Rellenar(mes, 2), Rellenar(dia, 2)>>,
         descripcion |-> descripcion,
         fecha_texto |-> [dia |-> Digitos(dia), mes |-> mes_nombre]]

----------------------------------------------------------------------------
\* NavarraLocalesScraper: the table of the BON
\*
\* A table is the sequence of its rows after the header; a row is the record of
\* its cells, [celdas, municipio, festividad]: the number of <td> cells, the
\* text of the first and the text of the second (a text record as above, or
\* forma "vacia" for an empty cell), both already stripped by get_text.

\* str.upper() on the municipality names the model passes in
Upper(s) ==
    CASE s = "Pamplona" -> "PAMPLONA"
      [] s = "Tudela" -> "TUDELA"
      [] OTHER -> s

_normalizar_municipio(nombre) ==
    IF Len(nombre) < 2 THEN Ninguno ELSE [ok |-> TRUE, nombre |-> Upper(nombre)]

\* the dict meses of _parsear_festividad
meses_de_festividad ==
    [m \in {"enero", "febrero", "marzo", "abril", "mayo", "junio", "julio", "agosto",
            "septiembre", "octubre", "noviembre", "diciembre"} |->
        CHOOSE i \in 1..12 :
            <<"enero", "febrero", "marzo", "abril", "mayo", "junio", "julio", "agosto",
              "septiembre", "octubre", "noviembre", "diciembre">>[i] = m]

\* a _parsear_festividad without its fixed-date step
MutSoloRelativa(y, t) ==
    LET relativa == calcular_fecha_relativa(y, t)
    IN  IF relativa.ok
        THEN [fecha |-> Strftime(relativa.fecha),
              descripcion |-> "Fiesta local",
              fecha_original |-> t,
              calculada |-> TRUE,
              metodo_calculo |-> relativa.metodo,
              tipo |-> "local", ambito |-> "local", year |-> y]
        ELSE Ninguno

\* patron_fija ^(\d{1,2})\s+de\s+(\w+)$ matches one or two digits, "de", one
\* word, and nothing else; with a known month the date is built or the row is
\* given up (ValueError); every other text goes to calcular_fecha_relativa
_parsear_festividad(y, t) ==
    LET coincide == /\ t.forma = "fija"
                    /\ Len(t.digitos) \in {1, 2}
                    /\ t.de
                    /\ t.descripcion = ""
    IN  IF coincide /\ Lower(t.mes) \in DOMAIN meses_de_festividad
        THEN LET dia == ValorDe(t.digitos)
                 mes == meses_de_festividad[Lower(t.mes)]
             IN  IF FechaValida(y, mes, dia)
                 THEN [fecha |-> Strftime(<<y, mes, dia>>),
                       descripcion |-> "Fiesta local",
                       fecha_original |-> t,
                       calculada |-> FALSE,
                       tipo |-> "local", ambito |-> "local", year |-> y]
                 ELSE Ninguno
        ELSE LET relativa == calcular_fecha_relativa(y, t)
             IN  IF relativa.ok
                 THEN [fecha |-> Strftime(relativa.fecha),
                       descripcion |-> "Fiesta local",
                       fecha_original |-> t,
                       calculada |-> TRUE,
                       metodo_calculo |-> relativa.metodo,
                       tipo |-> "local", ambito |-> "local", year |-> y]
                 ELSE Ninguno

\* whether _parsear_festividad gets as far as its call of
\* calcular_fecha_relativa: both returns of the fixed-date branch stand before
\* it, so it is reached when the pattern does not match or the month word is
\* not in meses
LlegaAFechaRelativa(t) ==
    ~( /\ t.forma = "fija"
       /\ Len(t.digitos) \in {1, 2}
       /\ t.de
       /\ t.descripcion = ""
       /\ Lower(t.mes) \in DOMAIN meses_de_festividad )

\* An entry of the cache file navarra_festivos_locales_<year>.json is the
\* record of its JSON object,
\*   cache: claves are the keys the object has besides 'fecha'; calculada and
\*          metodo_calculo are the values of those keys when they are there
\* dict.get gives the default for a key that is not there; metodo_calculo is
\* copied when its value is truthy
_festivo_from_cache(y, cache_entry) ==
    LET descripcion == IF "descripcion" \in cache_entry.claves
                       THEN cache_entry.descripcion ELSE "Fiesta local"
        fecha_original == IF "fecha_original" \in cache_entry.claves
                          THEN cache_entry.fecha_original ELSE ""
        calculada == IF "calculada" \in cache_entry.claves
                     THEN cache_entry.calculada ELSE FALSE
    IN  IF "metodo_calculo" \in cache_entry.claves /\ cache_entry.metodo_calculo # ""
        THEN [fecha |-> cache_entry.fecha,
              descripcion |-> descripcion,
              fecha_original |-> fecha_original,
              calculada |-> calculada,
              tipo |-> "local", ambito |-> "local", year |-> y,
              metodo_calculo |-> cache_entry.metodo_calculo]
        ELSE [fecha |-> cache_entry.fecha,
              descripcion |-> descripcion,
              fecha_original |-> fecha_original,
              calculada |-> calculada,
              tipo |-> "local", ambito |-> "local", year |-> y]

\* festivos_por_municipio[municipio] = valor
Poner(dict, clave, valor) ==
    [k \in DOMAIN dict \cup {clave} |-> IF k = clave THEN valor ELSE dict[k]]

\* the body of "for row in rows"
MutFilaMalaAborta(dict, y, fila) ==
    IF fila.celdas < 2 THEN dict
    ELSE IF fila.municipio = "" \/ fila.festividad.forma = "vacia" THEN dict
    ELSE LET municipio == _normalizar_municipio(fila.municipio)
         IN  IF ~municipio.ok THEN dict
             ELSE LET festivo == _parsear_festividad(y, fila.festividad)
                  IN  IF festivo # Ninguno
                      THEN Poner(dict, municipio.nombre, <<festivo>>)
                      ELSE <<>>

ProcesarFila(dict, y, fila) ==
    IF fila.celdas < 2 THEN dict
    ELSE IF fila.municipio = "" \/ fila.festividad.forma = "vacia" THEN dict
    ELSE LET municipio == _normalizar_municipio(fila.municipio)
         IN  IF ~municipio.ok THEN dict
             ELSE LET festivo == _parsear_festividad(y, fila.festividad)
                  IN  IF festivo # Ninguno
                      THEN Poner(dict, municipio.nombre, <<festivo>>)
                      ELSE dict

RECURSIVE RecorrerFilas(_, _, _)
RecorrerFilas(filas, y, dict) ==
    IF filas = <<>> THEN dict
    ELSE RecorrerFilas(Tail(filas), y, ProcesarFila(dict, y, Head(filas)))

\* {} when the page has no table
parse_festivos_html(y, t) ==
    IF ~t.hay_tabla THEN <<>> ELSE RecorrerFilas(t.filas, y, <<>>)

----------------------------------------------------------------------------
\* NavarraAutonomicosScraper.scrape

\* fecha.replace(day=dia): ValueError when the month has no such day
replace_day(fecha, dia) ==
    IF dia >= 1 /\ dia <= DiasDelMes(fecha[1], fecha[2])
    THEN [ok |-> TRUE, fecha |-> <<fecha[1], fecha[2], dia>>]
    ELSE Lanza("ValueError")

\* the five appends of scrape, up to the first replace that raises
NavarraAutonomicosScraper_scrape(y) ==
    LET pascua == calcular_pascua(y)
        jueves_santo == replace_day(pascua, pascua[3] - 3)
        viernes_santo == replace_day(pascua, pascua[3] - 2)
        lunes_pascua == replace_day(pascua, pascua[3] + 1)
        Fijo(mes, dia, descripcion) ==
            [fecha |-> <<Digitos(y), mes, dia>>, descripcion |-> descripcion,
             tipo |-> "autonomico", ambito |-> "autonomico", year |-> y]
        Movil(fecha, descripcion, metodo) ==
            [fecha |-> Strftime(fecha), descripcion |-> descripcion,
             tipo |-> "autonomico", ambito |-> "autonomico", year |-> y,
             calculada |-> TRUE, metodo_calculo |-> metodo]
    IN  IF ~jueves_santo.ok THEN jueves_santo
        ELSE IF ~viernes_santo.ok THEN viernes_santo
        ELSE IF ~lunes_pascua.ok THEN lunes_pascua
        ELSE [ok |-> TRUE,
              festivos |-> <<Fijo(<<0, 3>>, <<1, 9>>, "San José"),
                             Movil(jueves_santo.fecha, "Jueves Santo",
                                   "liturgico_pascua: -3 días"),
                             Movil(viernes_santo.fecha, "Viernes Santo",
                                   "liturgico_pascua: -2 días"),
                             Movil(lunes_pascua.fecha, "Lunes de Pascua",
                                   "liturgico_pascua: +1 día"),
                             Fijo(<<1, 2>>, <<0, 3>>, "San Francisco Javier")>>]

----------------------------------------------------------------------------
\* Inputs of the date calculator

Anios == 2024..MaxAnio

DiasConAcento ==
    {"lunes", "martes", "miércoles", "jueves", "viernes", "sábado", "domingo"}

TextosCompuestos ==
    [forma : {"compuesto"}, objetivo : DiasConAcento,
     modificador : {"anterior", "siguiente"},
     ordinal : {"primer", "segundo", "tercer", "cuarto", "quinto", "último", "penúltimo"},
     dia : DiasConAcento,
     mes : DOMAIN MESES \ {"setiembre"}]

TextosSimples ==
    [forma : {"simple"}, ordinal : DOMAIN ORDINALES \cup {"última"},
     dia : PatronDias, mes : DOMAIN MESES \cup {"brumario"}]

\* "<dia> de <fiesta>"; <<"jueves", "santo">> is "Jueves Santo", "corpus" is
\* "Corpus Christi"
TextosLiturgicos ==
    [forma : {"liturgico"},
     dia : PatronDias \cup {"", "segundo día", "segundo dia"},
     fiesta : {"carnaval", "pentecostés", "pentecostes", "ascensión", "ascension",
               "corpus", "santo", "pascua"}]

TextosSantoral ==
    [forma : {"santoral"}, objetivo : DiasConAcento,
     conector : {"de la semana", "de la", ""},
     modificador : {"siguiente", "posterior", "anterior"},
     santo : DOMAIN SANTORAL \cup {"san isidro"}]

\* the texts calcular_fecha_relativa is given
Textos ==
    TextosCompuestos \cup TextosSimples \cup TextosLiturgicos \cup TextosSantoral
        \cup {[forma |-> "otro"]}

\* the runs of digits of the fixed-date texts: every day from 0 to 32, a day
\* with a leading zero, a number of three digits, and the two numbers around
\* the largest C int
DigitosDeDia ==
    {Digitos(n) : n \in 0..32}
        \cup {<<0, 5>>, <<1, 5, 0>>, MaxIntC, <<2, 1, 4, 7, 4, 8, 3, 6, 4, 8>>}

\* "15 de mayo", "15 mayo San Isidro", "31 de febrero", "15 de MAYO", ...
TextosFijos ==
    [forma : {"fija"}, digitos : DigitosDeDia, de : BOOLEAN,
     mes : DOMAIN meses \cup {"setiembre", "brumario", "MAYO"},
     descripcion : {"", "San Isidro"}]

\* the second cells of the rows: "22 de enero", "31 de febrero", "segundo
\* viernes de septiembre", "Jueves Santo"
FestividadesDeTabla ==
    { [forma |-> "fija", digitos |-> <<2, 2>>, de |-> TRUE, mes |-> "enero",
       descripcion |-> ""],
      [forma |-> "fija", digitos |-> <<3, 1>>, de |-> TRUE, mes |-> "febrero",
       descripcion |-> ""],
      [forma |-> "simple", ordinal |-> "segundo", dia |-> "viernes",
       mes |-> "septiembre"],
      [forma |-> "liturgico", dia |-> "jueves", fiesta |-> "santo"] }

\* the rows of the table: full rows, a row with one cell, rows with an empty
\* or a one-letter first cell, a row with an empty second cell
FilasDeTabla ==
    [celdas : {2}, municipio : {"Pamplona", "Tudela", "TUDELA"},
     festividad : FestividadesDeTabla]
        \cup { [celdas |-> 1, municipio |-> "Pamplona", festividad |-> [forma |-> "vacia"]],
               [celdas |-> 2, municipio |-> "Pamplona", festividad |-> [forma |-> "vacia"]],
               [celdas |-> 2, municipio |-> "",
                festividad |-> [forma |-> "simple", ordinal |-> "segundo",
                                dia |-> "viernes", mes |-> "septiembre"]],
               [celdas |-> 2, municipio |-> "X",
                festividad |-> [forma |-> "simple", ordinal |-> "segundo",
                                dia |-> "viernes", mes |-> "septiembre"]] }

\* the pages parse_festivos_html is given: a table of up to MaxFilas rows, or
\* no table
Tablas ==
    { [forma |-> "tabla", hay_tabla |-> TRUE, filas |-> f] :
        f \in UNION { [1..n -> FilasDeTabla] : n \in 0..MaxFilas } }
        \cup { [forma |-> "tabla", hay_tabla |-> FALSE, filas |-> <<>>] }

\* the arguments (month, dia_semana, n) of a direct call of
\* obtener_nth_dia_semana_del_mes
\* the entries of a cache file: every choice of keys, both truth values of
\* 'calculada', an empty and a written 'metodo_calculo'
EntradasDeCache ==
    [forma : {"cache"},
     fecha : {"2026-09-11"},
     claves : SUBSET {"descripcion", "fecha_original", "calculada", "metodo_calculo"},
     descripcion : {"Fiesta local"},
     fecha_original : {"Segundo viernes de septiembre"},
     calculada : BOOLEAN,
     metodo_calculo : {"", "ordinal_simple: segundo viernes de septiembre"}]

ArgumentosNth ==
    [forma : {"nth"}, month : 0..13, dia_semana : (0 - 1)..7, n : (0 - 6)..6]

Hecho(funcion, valor) == [estado |-> "hecho", funcion |-> funcion, valor |-> valor]

InitCalc ==
    /\ pc = "calc"
    /\ ccaa = "navarra"
    /\ year \in Anios
    /\ festivos_todos = <<>>
    /\ festivos_unicos = <<>>
    /\ capas = [nac |-> <<>>, aut |-> <<>>, loc |-> <<>>]
    /\ errores = {}
    /\ segunda = <<>>
    /\ previo = <<>>
    /\ texto \in Textos \cup ArgumentosNth \cup TextosFijos \cup Tablas
                 \cup EntradasDeCache \cup {[forma |-> "scrape"]}
    /\ resultado = Pendiente
    /\ SinParser

mergeVars == <<pc, ccaa, year, festivos_todos, festivos_unicos, capas, errores,
               segunda, previo>>

LlamarFechaRelativa ==
    /\ pc = "calc"
    /\ resultado = Pendiente
    /\ texto.forma \notin {"nth", "tabla", "cache", "scrape"}
    /\ resultado' = Hecho("calcular_fecha_relativa", calcular_fecha_relativa(year, texto))
    /\ UNCHANGED <<mergeVars, parserVars, texto>>

LlamarOrdinalSimple ==
    /\ pc = "calc"
    /\ resultado = Pendiente
    /\ texto.forma = "simple"
    /\ resultado' = Hecho("calcular_ordinal_simple", calcular_ordinal_simple(year, texto))
    /\ UNCHANGED <<mergeVars, parserVars, texto>>

LlamarObtenerNth ==
    /\ pc = "calc"
    /\ resultado = Pendiente
    /\ texto.forma = "nth"
    /\ resultado' = Hecho("obtener_nth_dia_semana_del_mes",
                          obtener_nth_dia_semana_del_mes(year, texto.month,
                                                         texto.dia_semana, texto.n))
    /\ UNCHANGED <<mergeVars, parserVars, texto>>

LlamarParseFechaEspanol ==
    /\ pc = "calc"
    /\ resultado = Pendiente
    /\ texto.forma = "fija"
    /\ resultado' = Hecho("parse_fecha_espanol", parse_fecha_espanol(year, texto))
    /\ UNCHANGED <<mergeVars, parserVars, texto>>

\* _parsear_fecha, and _crear_festivo on the tuple it returned
LlamarParsearFecha ==
    /\ pc = "calc"
    /\ resultado = Pendiente
    /\ texto.forma = "fija"
    /\ LET tupla == _parsear_fecha(texto)
       IN  resultado' = Hecho("_parsear_fecha",
               [tupla |-> tupla,
                festivo |-> IF tupla.ok
                            THEN _crear_festivo(year, tupla.dia, tupla.mes,
                                                tupla.descripcion)
                            ELSE Ninguno])
    /\ UNCHANGED <<mergeVars, parserVars, texto>>

\* _parsear_festividad on one text, with whether it called
\* calcular_fecha_relativa
LlamarParsearFestividad ==
    /\ pc = "calc"
    /\ resultado = Pendiente
    /\ texto.forma \notin {"nth", "tabla", "cache", "scrape"}
    /\ resultado' = Hecho("_parsear_festividad",
                          [festivo |-> _parsear_festividad(year, texto),
                           relativa |-> LlegaAFechaRelativa(texto)])
    /\ UNCHANGED <<mergeVars, parserVars, texto>>

LlamarFestivoFromCache ==
    /\ pc = "calc"
    /\ resultado = Pendiente
    /\ texto.forma = "cache"
    /\ resultado' = Hecho("_festivo_from_cache", _festivo_from_cache(year, texto))
    /\ UNCHANGED <<mergeVars, parserVars, texto>>

LlamarScrapeNavarraAutonomicos ==
    /\ pc = "calc"
    /\ resultado = Pendiente
    /\ texto.forma = "scrape"
    /\ resultado' = Hecho("NavarraAutonomicosScraper.scrape",
                          NavarraAutonomicosScraper_scrape(year))
    /\ UNCHANGED <<mergeVars, parserVars, texto>>

LlamarSantoralRelativo ==
    /\ pc = "calc"
    /\ resultado = Pendiente
    /\ texto.forma = "santoral"
    /\ resultado' = Hecho("calcular_santoral_relativo",
                          calcular_santoral_relativo(year, texto))
    /\ UNCHANGED <<mergeVars, parserVars, texto>>

LlamarParseFestivosHtml ==
    /\ pc = "calc"
    /\ resultado = Pendiente
    /\ texto.forma = "tabla"
    /\ resultado' = Hecho("parse_festivos_html", parse_festivos_html(year, texto))
    /\ UNCHANGED <<mergeVars, parserVars, texto>>

NextCalc ==
    \/ LlamarParseFestivosHtml
    \/ LlamarParsearFestividad
    \/ LlamarFestivoFromCache
    \/ LlamarSantoralRelativo
    \/ LlamarScrapeNavarraAutonomicos
    \/ LlamarFechaRelativa
    \/ LlamarOrdinalSimple
    \/ LlamarObtenerNth
    \/ LlamarParseFechaEspanol
    \/ LlamarParsearFecha

SpecCalc == InitCalc /\ [][NextCalc]_vars

----------------------------------------------------------------------------
\* BasePDFParser: parse and get_festivos_municipio
\*
\* A municipality name is the sequence of its characters. The dict that
\* _parse_text returns is the sequence of its items [clave, festivos] in
\* insertion order, the order in which 'for key, festivos in dict.items()'
\* visits them. self._cached_festivos is Ninguno for None and
\* [ok |-> TRUE, valor |-> dict] otherwise.

\* str.upper() of one character
Mayuscula(c) ==
    CASE c = "a" -> "A"
      [] c = "b" -> "B"
      [] OTHER -> c

str_upper(s) == [i \in 1..Len(s) |-> Mayuscula(s[i])]

\* the operator 'a in b' of two strings
EstaEn(a, b) ==
    \E i \in 0..(Len(b) - Len(a)) : SubSeq(b, i + 1, i + Len(a)) = a

\* the first of the positions S in the order of the items
PrimeraPosicion(S) == CHOOSE i \in S : \A j \in S : i <= j

\* What one call finds outside the instance: entorno.carga tells whether
\* _load_pdf returns the text (it raises otherwise), entorno.texto is what
\* _parse_text then does with it, a dict returned or an exception raised.
\* The result of a call: the new self._cached_festivos, how many times
\* _load_pdf and _parse_text ran, whether a parse completed, and what the caller
\* gets.

\* a parse whose cache test is 'if self._cached_festivos:'
MutCacheSiNoVacio(cache, entorno) ==
    IF cache.ok /\ cache.valor # <<>>
    THEN [cache |-> cache, cargas |-> 0, parseos |-> 0, exitos |-> 0,
          retorno |-> [ok |-> TRUE, valor |-> cache.valor]]
    ELSE IF ~entorno.carga
    THEN [cache |-> cache, cargas |-> 1, parseos |-> 0, exitos |-> 0,
          retorno |-> Lanza("Exception")]
    ELSE IF ~entorno.texto.ok
    THEN [cache |-> cache, cargas |-> 1, parseos |-> 1, exitos |-> 0,
          retorno |-> Lanza("Exception")]
    ELSE [cache |-> [ok |-> TRUE, valor |-> entorno.texto.valor],
          cargas |-> 1, parseos |-> 1, exitos |-> 1,
          retorno |-> [ok |-> TRUE, valor |-> entorno.texto.valor]]

parse(cache, entorno) ==
    IF cache.ok
    THEN [cache |-> cache, cargas |-> 0, parseos |-> 0, exitos |-> 0,
          retorno |-> [ok |-> TRUE, valor |-> cache.valor]]
    ELSE IF ~entorno.carga
    THEN [cache |-> cache, cargas |-> 1, parseos |-> 0, exitos |-> 0,
          retorno |-> Lanza("Exception")]
    ELSE IF ~entorno.texto.ok
    THEN [cache |-> cache, cargas |-> 1, parseos |-> 1, exitos |-> 0,
          retorno |-> Lanza("Exception")]
    ELSE [cache |-> [ok |-> TRUE, valor |-> entorno.texto.valor],
          cargas |-> 1, parseos |-> 1, exitos |-> 1,
          retorno |-> [ok |-> TRUE, valor |-> entorno.texto.valor]]

\* a lookup that tries the partial match before the exact ones
MutParcialPrimero(cache, entorno, municipio) ==
    LET p == parse(cache, entorno)
    IN  IF ~p.retorno.ok THEN p
        ELSE LET todos == p.retorno.valor
                 municipio_upper == str_upper(municipio)
                 parciales == {i \in 1..Len(todos) :
                                  \/ EstaEn(municipio_upper, str_upper(todos[i].clave))
                                  \/ EstaEn(str_upper(todos[i].clave), municipio_upper)}
             IN  [p EXCEPT !.retorno.valor =
                     IF parciales # {}
                     THEN todos[PrimeraPosicion(parciales)].festivos
                     ELSE <<>>]

get_festivos_municipio(cache, entorno, municipio) ==
    LET p == parse(cache, entorno)
    IN  IF ~p.retorno.ok THEN p
        ELSE LET todos == p.retorno.valor
                 municipio_upper == str_upper(municipio)
                 exactas == {i \in 1..Len(todos) :
                                todos[i].clave = municipio_upper}
                 insensibles == {i \in 1..Len(todos) :
                                    str_upper(todos[i].clave) = municipio_upper}
                 parciales == {i \in 1..Len(todos) :
                                  \/ EstaEn(municipio_upper, str_upper(todos[i].clave))
                                  \/ EstaEn(str_upper(todos[i].clave), municipio_upper)}
             IN  [p EXCEPT !.retorno.valor =
                     IF exactas # {}
                     THEN todos[PrimeraPosicion(exactas)].festivos
                     ELSE IF insensibles # {}
                     THEN todos[PrimeraPosicion(insensibles)].festivos
                     ELSE IF parciales # {}
                     THEN todos[PrimeraPosicion(parciales)].festivos
                     ELSE <<>>]

\* the names of the model: names that are equal but for the case, names that
\* contain one another, a name apart from them, and the empty name for the
\* argument municipio only
Nombres ==
    {<<>>, <<"a">>, <<"A">>, <<"A", "b">>, <<"A", "B">>, <<"b">>}

\* the dicts _parse_text returns: up to two items with different keys, each
\* with the list of the one festivo of that key
Diccionarios ==
    {<<>>}
    \cup {<<[clave |-> k, festivos |-> <<[municipio |-> k]>>]>> : k \in Nombres \ {<<>>}}
    \cup {<<[clave |-> k[1], festivos |-> <<[municipio |-> k[1]]>>],
            [clave |-> k[2], festivos |-> <<[municipio |-> k[2]]>>]>> :
             k \in {kk \in (Nombres \ {<<>>}) \X (Nombres \ {<<>>}) : kk[1] # kk[2]}}

Entornos ==
    {[carga |-> FALSE]}
    \cup {[carga |-> TRUE, texto |-> Lanza("Exception")]}
    \cup {[carga |-> TRUE, texto |-> [ok |-> TRUE, valor |-> dict]] : dict \in Diccionarios}

InitParser ==
    /\ pc = "parser"
    /\ ccaa = "asturias"
    /\ year = 2026
    /\ festivos_todos = <<>>
    /\ festivos_unicos = <<>>
    /\ capas = [nac |-> <<>>, aut |-> <<>>, loc |-> <<>>]
    /\ errores = {}
    /\ segunda = <<>>
    /\ previo = <<>>
    /\ texto = NingunTexto
    /\ resultado = Pendiente
    /\ SinParser

\* the effect of one call on the instance and on the history
Registrar(funcion, argumento, p) ==
    /\ _cached_festivos' = p.cache
    /\ contadores' = [llamadas |-> contadores.llamadas + 1,
                      cargas |-> contadores.cargas + p.cargas,
                      parseos |-> contadores.parseos + p.parseos,
                      exitos |-> contadores.exitos + p.exitos,
                      con_cache |-> contadores.con_cache
                          + (IF _cached_festivos.ok THEN p.cargas + p.parseos ELSE 0)]
    /\ retorno' = [estado |-> "hecho", funcion |-> funcion, argumento |-> argumento,
                   valor |-> p.retorno, cargas |-> p.cargas, parseos |-> p.parseos]
    /\ primer_parse' = IF ~primer_parse.ok /\ p.exitos = 1
                       THEN p.cache
                       ELSE primer_parse

LlamarParse ==
    /\ pc = "parser"
    /\ contadores.llamadas < MaxLlamadas
    /\ \E entorno \in Entornos :
          Registrar("parse", <<>>, parse(_cached_festivos, entorno))
    /\ UNCHANGED <<mergeVars, calcVars>>

LlamarGetFestivosMunicipio ==
    /\ pc = "parser"
    /\ contadores.llamadas < MaxLlamadas
    /\ \E entorno \in Entornos, municipio \in Nombres :
          Registrar("get_festivos_municipio", municipio,
                    get_festivos_municipio(_cached_festivos, entorno, municipio))
    /\ UNCHANGED <<mergeVars, calcVars>>

NextParser ==
    \/ LlamarParse
    \/ LlamarGetFestivosMunicipio

SpecParser == InitParser /\ [][NextParser]_vars

----------------------------------------------------------------------------
\* Vocabulary of the properties of the merge

\* everything the three steps returned, in the order of the concatenation
Entradas == capas.nac \o capas.aut \o capas.loc

\* the jurisdiction order local > nacional > autonomico
Rango(tipo) ==
    CASE tipo = "local" -> 3
      [] tipo = "nacional" -> 2
      [] tipo = "autonomico" -> 1

\* a date as a number that grows with the calendar
Cronologico(fecha) == fecha[1] * 372 + fecha[2] * 31 + fecha[3]

EnOrden(lista) ==
    \A i, j \in 1..Len(lista) :
        i < j => Cronologico(lista[i].fecha) <= Cronologico(lista[j].fecha)

SinRepetidos(lista) ==
    \A i, j \in 1..Len(lista) : i < j => lista[i].fecha # lista[j].fecha

Elementos(lista) == {lista[i] : i \in 1..Len(lista)}

FechasEn(lista) == {lista[i].fecha : i \in 1..Len(lista)}

\* the substitution table as the comments of the merge give it
ReglaSustitucion(c, y) == c \in {"canarias", "Canarias"} /\ y = 2025

Fusionado == pc \in {"done", "done2"}

----------------------------------------------------------------------------
\* C1: the 'festivos' list the merge returns holds no two records with the
\* same 'fecha', whatever the three steps returned, lists that repeat a date
\* inside one step included.
C1_NoDuplicateDates ==
    Fusionado => SinRepetidos(festivos_todos)

\* the national list repeats a date and the date is in the returned list
C1_Witness ==
    /\ pc = "done"
    /\ Len(capas.nac) = 2
    /\ capas.nac[1].fecha = capas.nac[2].fecha
    /\ capas.nac[1].fecha \in FechasEn(festivos_todos)

\* C2: of the records that share a date the one kept has the highest
\* jurisdiction priority, local > nacional > autonomico, whatever the order
\* in which they were collected.
C2_PriorityOrdering ==
    pc \in {"ordenar", "sustituir", "done", "done2"} =>
        /\ \A k \in Elementos(festivos_unicos) : \A x \in Elementos(Entradas) :
              x.fecha = k.fecha => Rango(k.tipo) >= Rango(x.tipo)
        /\ Fusionado => Elementos(festivos_todos) \subseteq Elementos(festivos_unicos)

\* a regional record came first, a national and a local one on the same date
\* later, and the local one is in the returned list
C2_Witness ==
    /\ pc = "done"
    /\ Len(capas.nac) = 2 /\ Len(capas.loc) = 1
    /\ capas.nac[1].tipo = "autonomico"
    /\ capas.nac[2].tipo = "nacional"
    /\ capas.nac[1].fecha = capas.nac[2].fecha
    /\ capas.loc[1].fecha = capas.nac[1].fecha
    /\ capas.loc[1] \in Elementos(festivos_todos)

\* C3: the merged list is in ascending chronological order of 'fecha' after
\* the sort, and still after the substitution removal.
C3_SortedByFecha ==
    pc \in {"sustituir", "done", "done2"} => EnOrden(festivos_todos)

\* the steps returned the dates out of order, one was removed as substituted
\* and two are left
C3_Witness ==
    /\ pc = "done"
    /\ ~EnOrden(Entradas)
    /\ Len(previo) = 3
    /\ Len(festivos_todos) = 2

\* C4 as stated: with a national record on the substituted date and a regional
\* record on the replacement date, the merged calendar has no record on the
\* substituted date and still holds the regional replacement record.
C4_Original ==
    ( /\ pc = "done"
      /\ ReglaSustitucion(ccaa, year)
      /\ \E n \in Elementos(capas.nac) : n.fecha = FechaSustituida /\ n.tipo = "nacional"
      /\ \E r \in Elementos(capas.aut) : r.fecha = FechaReemplazo )
    =>
    ( /\ FechaSustituida \notin FechasEn(festivos_todos)
      /\ \E k \in Elementos(festivos_todos) :
            k.fecha = FechaReemplazo /\ k.tipo = "autonomico" )

\* C4 amended: in Canarias 2025, given a national record on 2025-10-12 and a
\* regional record on the replacement date, the merged calendar has no record
\* on 2025-10-12 and still has a record on the replacement date, which is a
\* regional one unless a national or local record shares that date. Where no
\* rule exists the substitution step removes nothing.
C4_SubstitutionRemoval ==
    pc = "done" =>
        /\ ( /\ ReglaSustitucion(ccaa, year)
              /\ \E n \in Elementos(capas.nac) :
                    n.fecha = FechaSustituida /\ n.tipo = "nacional"
              /\ \E r \in Elementos(capas.aut) : r.fecha = FechaReemplazo )
            =>
            ( /\ FechaSustituida \notin FechasEn(festivos_todos)
              /\ \E k \in Elementos(festivos_todos) :
                    /\ k.fecha = FechaReemplazo
                    /\ \/ k.tipo = "autonomico"
                       \/ \E x \in Elementos(Entradas) :
                             /\ x.fecha = FechaReemplazo
                             /\ x.tipo \in {"nacional", "local"}
                             /\ k = x )
        /\ ~ReglaSustitucion(ccaa, year) => festivos_todos = previo

\* Canarias 2025: the national record of 2025-10-12 is gone and the regional
\* record of 2025-05-30 is returned
C4_Witness ==
    /\ pc = "done"
    /\ ReglaSustitucion(ccaa, year)
    /\ \E n \in Elementos(capas.nac) : n.fecha = FechaSustituida /\ n.tipo = "nacional"
    /\ Len(capas.aut) = 1
    /\ capas.aut[1].fecha = FechaReemplazo
    /\ capas.aut[1] \in Elementos(festivos_todos)
    /\ FechaSustituida \in FechasEn(previo)

LocalesQueQuedan ==
    {capas.loc[i] : i \in {n \in 1..Len(capas.loc) :
        /\ \A m \in 1..(n - 1) : capas.loc[m].fecha # capas.loc[n].fecha
        /\ ~(ReglaSustitucion(ccaa, year) /\ capas.loc[n].fecha = FechaSustituida)}}

C6_Idempotence ==
    pc = "done2" => segunda = festivos_todos

\* a calendar of two records, after a substituted date was removed, went
\* through the steps twice
C6_Witness ==
    /\ pc = "done2"
    /\ Len(festivos_todos) = 2
    /\ Len(previo) = 3
    /\ ~EnOrden(Entradas)

\* position in the concatenation of the first record with this date and tipo
PrimeroDe(fecha, tipo) ==
    CHOOSE i \in 1..Len(Entradas) :
        /\ Entradas[i].fecha = fecha /\ Entradas[i].tipo = tipo
        /\ \A j \in 1..(i - 1) : ~(Entradas[j].fecha = fecha /\ Entradas[j].tipo = tipo)

\* C7: of several records with the same date and the same priority the merge
\* keeps the first in the order national, regional, local (and in the order
\* of the list inside one step); a later one never replaces it.
C7_StableTieBreak ==
    pc \in {"ordenar", "sustituir", "done", "done2"} =>
        \A k \in Elementos(festivos_unicos) : k = Entradas[PrimeroDe(k.fecha, k.tipo)]

\* two regional records on one date, the first from the national step's
\* table and the second from the regional step: the first is returned
C7_Witness ==
    /\ pc = "done"
    /\ Len(capas.nac) >= 1 /\ Len(capas.aut) = 1
    /\ capas.nac[1].tipo = "autonomico"
    /\ capas.aut[1].fecha = capas.nac[1].fecha
    /\ capas.nac[1] \in Elementos(festivos_todos)
    /\ capas.aut[1] \notin Elementos(festivos_todos)

----------------------------------------------------------------------------
\* Vocabulary of the properties of the date calculator

\* Easter Sunday of the western computus, from the published tables
PascuaConocida(y) ==
    CASE y = 2024 -> <<2024, 3, 31>>
      [] y = 2025 -> <<2025, 4, 20>>
      [] y = 2026 -> <<2026, 4, 5>>
      [] y = 2027 -> <<2027, 3, 28>>
      [] y = 2028 -> <<2028, 4, 16>>
      [] y = 2029 -> <<2029, 4, 1>>
      [] y = 2030 -> <<2030, 4, 21>>
      [] y = 2031 -> <<2031, 4, 13>>
      [] y = 2032 -> <<2032, 3, 28>>

\* days from a to b
DiasEntre(a, b) == AOrdinal(b) - AOrdinal(a)

Llamada(funcion) == resultado # Pendiente /\ resultado.funcion = funcion

\* the days of month m of year y that fall on weekday w
DiasQueCaenEn(y, m, w) == {d \in 1..DiasDelMes(y, m) : Weekday(<<y, m, d>>) = w}

Veces(y, m, w) == Cardinality(DiasQueCaenEn(y, m, w))

NumeroDeDia(palabra) ==
    CASE palabra = "lunes" -> 0
      [] palabra = "martes" -> 1
      [] palabra \in {"miércoles", "miercoles"} -> 2
      [] palabra = "jueves" -> 3
      [] palabra = "viernes" -> 4
      [] palabra \in {"sábado", "sabado"} -> 5
      [] palabra = "domingo" -> 6

NumeroDeMes(palabra) ==
    CASE palabra = "enero" -> 1
      [] palabra = "febrero" -> 2
      [] palabra = "marzo" -> 3
      [] palabra = "abril" -> 4
      [] palabra = "mayo" -> 5
      [] palabra = "junio" -> 6
      [] palabra = "julio" -> 7
      [] palabra = "agosto" -> 8
      [] palabra \in {"septiembre", "setiembre"} -> 9
      [] palabra = "octubre" -> 10
      [] palabra = "noviembre" -> 11
      [] palabra = "diciembre" -> 12

NumeroDeOrdinal(palabra) ==
    CASE palabra \in {"primer", "primero", "primera"} -> 1
      [] palabra \in {"segundo", "segunda"} -> 2
      [] palabra \in {"tercer", "tercero", "tercera"} -> 3
      [] palabra \in {"cuarto", "cuarta"} -> 4
      [] palabra \in {"quinto", "quinta"} -> 5

PalabrasDeMes ==
    {"enero", "febrero", "marzo", "abril", "mayo", "junio", "julio", "agosto",
     "septiembre", "setiembre", "octubre", "noviembre", "diciembre"}

PalabrasDeOrdinalPositivo ==
    {"primer", "primero", "primera", "segundo", "segunda", "tercer", "tercero",
     "tercera", "cuarto", "cuarta", "quinto", "quinta"}

C9_OrdinalWeekday ==
    ( /\ Llamada("calcular_fecha_relativa")
      /\ texto.forma = "simple"
      /\ texto.dia \in DOMAIN DIAS_SEMANA
      /\ texto.mes \in PalabrasDeMes )
    =>
    LET m == NumeroDeMes(texto.mes)
        w == NumeroDeDia(texto.dia)
        dim == DiasDelMes(year, m)
        v == resultado.valor
        EnElMes(desde, hasta) ==
            /\ v.ok
            /\ v.fecha[1] = year /\ v.fecha[2] = m
            /\ v.fecha[3] \in DiasQueCaenEn(year, m, w)
            /\ desde <= v.fecha[3] /\ v.fecha[3] <= hasta
    IN  /\ ( /\ texto.ordinal \in PalabrasDeOrdinalPositivo
             /\ NumeroDeOrdinal(texto.ordinal) <= Veces(year, m, w) )
           => EnElMes(7 * (NumeroDeOrdinal(texto.ordinal) - 1) + 1,
                      7 * NumeroDeOrdinal(texto.ordinal))
        /\ texto.ordinal \in {"último", "ultima"} => EnElMes(dim - 6, dim)
        /\ texto.ordinal \in {"penúltimo", "penultimo"} => EnElMes(dim - 13, dim - 7)
        /\ v.ok => (v.fecha[1] = year /\ v.fecha[2] = m)
        /\ ( /\ year = 2026
             /\ texto.ordinal = "segundo" /\ texto.dia = "viernes"
             /\ texto.mes = "septiembre" )
           => v = Fecha(<<2026, 9, 11>>,
                        <<"ordinal_simple", "segundo", "viernes", "septiembre">>)

\* a fifth weekday that exists was resolved, in a month whose first week of
\* the calendar grid does not hold that weekday
C9_Witness ==
    /\ Llamada("calcular_fecha_relativa")
    /\ texto.forma = "simple"
    /\ texto.ordinal = "quinto"
    /\ texto.mes \in PalabrasDeMes
    /\ resultado.valor.ok
    /\ resultado.valor.fecha[3] >= 29
    /\ MonthCalendar(year, resultado.valor.fecha[2])[1][Weekday(resultado.valor.fecha)] = 0

\* the ordinal asked for is more than the weekday occurs in the month
Excede ==
    /\ texto.forma = "nth"
    /\ texto.month \in 1..12
    /\ texto.dia_semana \in 0..6
    /\ texto.n # 0
    /\ (IF texto.n < 0 THEN 0 - texto.n ELSE texto.n)
            > Veces(year, texto.month, texto.dia_semana)

ExcedeSimple ==
    /\ texto.forma = "simple"
    /\ texto.dia \in DOMAIN DIAS_SEMANA
    /\ texto.mes \in PalabrasDeMes
    /\ texto.ordinal \in PalabrasDeOrdinalPositivo
    /\ NumeroDeOrdinal(texto.ordinal)
            > Veces(year, NumeroDeMes(texto.mes), NumeroDeDia(texto.dia))

\* C10: when the ordinal exceeds the number of occurrences of the weekday in
\* the month, positive or negative, obtener_nth_dia_semana_del_mes and
\* calcular_ordinal_simple return None; what they return is never a date of
\* another month nor a date that does not exist.
C10_OrdinalOutOfRange ==
    /\ (Llamada("obtener_nth_dia_semana_del_mes") /\ Excede)
          => resultado.valor = Ninguno
    /\ (Llamada("calcular_ordinal_simple") /\ ExcedeSimple)
          => resultado.valor = Ninguno
    /\ (Llamada("obtener_nth_dia_semana_del_mes") /\ resultado.valor.ok)
          => /\ resultado.valor.fecha[1] = year
             /\ resultado.valor.fecha[2] = texto.month
             /\ FechaValida(year, texto.month, resultado.valor.fecha[3])
    /\ ( /\ Llamada("calcular_ordinal_simple")
          /\ texto.forma = "simple"
          /\ resultado.valor.ok )
          => /\ resultado.valor.fecha[1] = year
             /\ resultado.valor.fecha[2] = NumeroDeMes(texto.mes)
             /\ FechaValida(year, resultado.valor.fecha[2], resultado.valor.fecha[3])

\* a fifth and a fifth-from-last weekday were asked of a month that has four
C10_Witness ==
    /\ Llamada("obtener_nth_dia_semana_del_mes")
    /\ Excede
    /\ texto.n = 0 - 5
    /\ Veces(year, texto.month, texto.dia_semana) = 4
    /\ resultado.valor = Ninguno

----------------------------------------------------------------------------
\* Vocabulary of the properties of the compound and liturgical families

\* the days of the month of text t that are its <ordinal> <dia>, counted on the
\* calendar: the n-th such weekday, the last one, or the one before the last
DiasDelOrdinal(y, t) ==
    LET m == NumeroDeMes(t.mes)
        w == NumeroDeDia(t.dia)
        dim == DiasDelMes(y, m)
    IN  IF t.ordinal \in PalabrasDeOrdinalPositivo
        THEN {d \in DiasQueCaenEn(y, m, w) :
                 /\ 7 * (NumeroDeOrdinal(t.ordinal) - 1) < d
                 /\ d <= 7 * NumeroDeOrdinal(t.ordinal)}
        ELSE IF t.ordinal \in {"último", "ultima"}
        THEN {d \in DiasQueCaenEn(y, m, w) : d > dim - 7}
        ELSE {d \in DiasQueCaenEn(y, m, w) : dim - 14 < d /\ d <= dim - 7}

\* C11: every compound expression '<outer weekday> anterior|siguiente al
\* <ordinal> <inner weekday> de <month>' that calcular_fecha_relativa resolves
\* gives a date on the outer weekday, 1 to 7 days after (siguiente) or before
\* (anterior) the inner ordinal date, and exactly 7 days away when the two
\* weekdays are the same; never the inner date itself.
C11_CompoundWalk ==
    ( /\ Llamada("calcular_fecha_relativa")
      /\ texto.forma = "compuesto"
      /\ resultado.valor.ok )
    =>
    \E d \in DiasDelOrdinal(year, texto) :
        LET base == <<year, NumeroDeMes(texto.mes), d>>
            k == DiasEntre(base, resultado.valor.fecha)
        IN  /\ Weekday(resultado.valor.fecha) = NumeroDeDia(texto.objetivo)
            /\ texto.modificador = "siguiente" => (1 <= k /\ k <= 7)
            /\ texto.modificador = "anterior" => (1 <= 0 - k /\ 0 - k <= 7)
            /\ NumeroDeDia(texto.objetivo) = NumeroDeDia(texto.dia) => Abs(k) = 7

\* the call resolved the text to Easter Sunday of the year plus k days
DesdePascua(k) ==
    /\ resultado.valor.ok
    /\ DiasEntre(PascuaConocida(year), resultado.valor.fecha) = k

Liturgico(dias, fiestas) ==
    /\ Llamada("calcular_fecha_relativa")
    /\ texto.forma = "liturgico"
    /\ texto.dia \in dias
    /\ texto.fiesta \in fiestas

\* C12: calcular_fecha_relativa resolves 'Jueves Santo', 'Viernes Santo' and
\* 'Lunes de Pascua' to Easter - 3, Easter - 2 and Easter + 1 days of the year,
\* and the texts naming the Ascension and Corpus Christi to Easter + 39 and
\* Easter + 60 days.
C12_HolyWeekAscensionCorpus ==
    /\ Liturgico({"jueves"}, {"santo"}) => DesdePascua(0 - 3)
    /\ Liturgico({"viernes"}, {"santo"}) => DesdePascua(0 - 2)
    /\ Liturgico({"lunes"}, {"pascua"}) => DesdePascua(1)
    /\ Liturgico({"", "jueves"}, {"ascensión", "ascension"}) => DesdePascua(39)
    /\ Liturgico({"", "jueves"}, {"corpus"}) => DesdePascua(60)

\* C13: for every year and each named Carnival day (domingo, lunes, martes,
\* jueves, viernes, sábado), '<weekday> de carnaval' resolves to a date on the
\* named weekday that lies before Ash Wednesday (Easter - 46 days); 'Martes de
\* carnaval' is the day before Ash Wednesday.
C13_CarnivalDays ==
    Liturgico({"domingo", "lunes", "martes", "jueves", "viernes", "sábado"}, {"carnaval"})
    =>
    ( /\ resultado.valor.ok
      /\ Weekday(resultado.valor.fecha) = NumeroDeDia(texto.dia)
      /\ DiasEntre(PascuaConocida(year), resultado.valor.fecha) < 0 - 46
      /\ texto.dia = "martes" => DesdePascua(0 - 47) )

\* C14: the texts naming Pentecost Sunday, Monday and Tuesday resolve to
\* Easter + 49, + 50 and + 51 days: 'martes de Pentecostés' and 'segundo día de
\* Pentecostés' to Easter + 51, Pentecost Sunday or Pentecost with no weekday to
\* Easter + 49.
C14_PentecostDays ==
    /\ Liturgico({"martes", "segundo día", "segundo dia"}, {"pentecostés", "pentecostes"})
          => DesdePascua(51)
    /\ Liturgico({"lunes"}, {"pentecostés", "pentecostes"}) => DesdePascua(50)
    /\ Liturgico({"domingo", ""}, {"pentecostés", "pentecostes"}) => DesdePascua(49)

\* C15: '<weekday> posterior|siguiente|anterior a San/Santa <name>' is resolved
\* both with and without the words 'de la semana', for a saint of the static
\* table.
C15_SantoralOptionalWords ==
    ( /\ Llamada("calcular_fecha_relativa")
      /\ texto.forma = "santoral"
      /\ texto.conector \in {"de la semana", ""}
      /\ texto.santo \in {"san lucas", "san francisco javier", "san josé", "santa lucía",
                          "san juan", "san pedro", "santiago", "san martín", "san andrés"} )
    => resultado.valor.ok

\* C16: every date calcular_fecha_relativa returns lies in the target year, the
\* compound expressions anchored in January with 'anterior' and in December
\* with 'siguiente' included.
C16_WithinTargetYear ==
    (Llamada("calcular_fecha_relativa") /\ resultado.valor.ok)
    => /\ resultado.valor.fecha[1] = year
       /\ FechaValida(year, resultado.valor.fecha[2], resultado.valor.fecha[3])

----------------------------------------------------------------------------
\* Vocabulary of the properties of the fixed-date parsers

\* the 12 Spanish month names
DoceMeses ==
    {"enero", "febrero", "marzo", "abril", "mayo", "junio", "julio", "agosto",
     "septiembre", "octubre", "noviembre", "diciembre"}

\* the month word of the text, case aside
MesEscrito == Lower(texto.mes)

\* a day of the month as it is written in decimal
Decimal(d) == IF d < 10 THEN <<d>> ELSE <<d \div 10, d % 10>>

\* the days of the month named by the text that its digits write
DiasEscritos ==
    {d \in 1..DiasDelMes(year, NumeroDeMes(MesEscrito)) :
        Decimal(d) = SinCeros(texto.digitos)}

\* the number a field of an ISO date writes
RECURSIVE LeerNumero(_)
LeerNumero(campo) ==
    IF campo = <<>> THEN 0
    ELSE LeerNumero(SubSeq(campo, 1, Len(campo) - 1)) * 10 + campo[Len(campo)]

\* fecha is the ISO date 'YYYY-MM-DD' of year y, month m, day d
EsISO(fecha, y, m, d) ==
    /\ Len(fecha[1]) = 4 /\ LeerNumero(fecha[1]) = y
    /\ Len(fecha[2]) = 2 /\ LeerNumero(fecha[2]) = m
    /\ Len(fecha[3]) = 2 /\ LeerNumero(fecha[3]) = d

\* C17: parse_fecha_espanol returns None, and raises nothing, when the month
\* word is not one of the 12 Spanish month names or when the day does not exist
\* in that month of the target year; '31 de febrero' is rejected in every
\* year and '29 de febrero' is accepted exactly in the leap years.
C17_InvalidFixedDate ==
    (Llamada("parse_fecha_espanol") /\ texto.forma = "fija")
    =>
    /\ MesEscrito \notin DoceMeses => resultado.valor = Ninguno
    /\ (MesEscrito \in DoceMeses /\ DiasEscritos = {}) => resultado.valor = Ninguno
    /\ (MesEscrito = "febrero" /\ texto.digitos = <<3, 1>>) => resultado.valor = Ninguno
    /\ (MesEscrito = "febrero" /\ texto.digitos = <<2, 9>>)
          => (resultado.valor.ok <=> EsBisiesto(year))

\* C18: for every day and month that exist in the target year, parsing
\* '<d> de <mes>' gives the zero-padded ISO date year-mm-dd, and the
\* 'fecha_texto' of parse_fecha_espanol and of _crear_festivo is '<d> de <mes>'
\* again, the month in lower case; _parsear_fecha followed by _crear_festivo
\* keeps the day, the month and the description.
C18_FixedDateRoundTrip ==
    ( /\ resultado # Pendiente
      /\ texto.forma = "fija"
      /\ MesEscrito \in DoceMeses
      /\ DiasEscritos # {} )
    =>
    LET d == CHOOSE x \in DiasEscritos : TRUE
        m == NumeroDeMes(MesEscrito)
        v == resultado.valor
        escrito == [dia |-> SinCeros(texto.digitos), mes |-> MesEscrito]
    IN  /\ Llamada("parse_fecha_espanol") =>
              /\ v.ok
              /\ EsISO(v.fecha, year, m, d)
              /\ v.fecha_texto = escrito
        /\ Llamada("_parsear_fecha") =>
              /\ v.tupla.ok
              /\ v.tupla.dia = d /\ v.tupla.mes = m
              /\ v.tupla.descripcion = texto.descripcion
              /\ EsISO(v.festivo.fecha, year, m, d)
              /\ v.festivo.fecha_texto = escrito
              /\ v.festivo.descripcion = texto.descripcion

\* '15 de MAYO' was parsed for 2026 into 2026-05-15 and '15 de mayo'
C18_Witness ==
    /\ Llamada("parse_fecha_espanol")
    /\ year = 2026
    /\ texto = [forma |-> "fija", digitos |-> <<1, 5>>, de |-> TRUE, mes |-> "MAYO",
                descripcion |-> ""]
    /\ resultado.valor.ok
    /\ resultado.valor.fecha = << <<2, 0, 2, 6>>, <<0, 5>>, <<1, 5>> >>
    /\ resultado.valor.fecha_texto = [dia |-> <<1, 5>>, mes |-> "mayo"]

----------------------------------------------------------------------------
\* Vocabulary of the properties of the Navarra table

\* the row has its two cells, both with text, and a municipality name
FilaCompleta(f) ==
    /\ f.celdas >= 2
    /\ f.municipio # ""
    /\ f.festividad.forma # "vacia"
    /\ Len(f.municipio) >= 2

\* the date text of the row is resolved, as a fixed date or by
\* calcular_fecha_relativa
FilaResuelta(f) ==
    /\ FilaCompleta(f)
    /\ _parsear_festividad(year, f.festividad) # Ninguno

\* a full row whose date text nothing resolves
FilaMala(f) == FilaCompleta(f) /\ ~FilaResuelta(f)

\* C19: in the table of the Navarra local collector a row whose date text is
\* resolved neither as a fixed date nor by calcular_fecha_relativa (which
\* returns None) leaves no record and no date, and the other rows yield their
\* records as if the row were not there: each resolved row's record is stored
\* under its municipality (the last such row of a municipality, when it is
\* listed twice), and every stored record comes from a resolved row.
C19_UnparseableRowDropped ==
    (Llamada("parse_festivos_html") /\ texto.hay_tabla)
    =>
    LET filas == texto.filas
        d == resultado.valor
        Ultima(i) ==
            /\ FilaResuelta(filas[i])
            /\ \A j \in (i + 1)..Len(filas) :
                  ~(FilaResuelta(filas[j])
                      /\ Upper(filas[j].municipio) = Upper(filas[i].municipio))
    IN  /\ \A i \in 1..Len(filas) :
              Ultima(i) =>
                  /\ Upper(filas[i].municipio) \in DOMAIN d
                  /\ d[Upper(filas[i].municipio)] =
                        <<_parsear_festividad(year, filas[i].festividad)>>
                  /\ d[Upper(filas[i].municipio)][1].fecha_original = filas[i].festividad
        /\ \A k \in DOMAIN d :
              \E i \in 1..Len(filas) :
                  /\ FilaResuelta(filas[i])
                  /\ Upper(filas[i].municipio) = k
                  /\ d[k][1].fecha_original = filas[i].festividad
        /\ \A i \in 1..Len(filas) :
              (FilaCompleta(filas[i]) /\ filas[i].festividad.forma # "fija")
                  => (FilaMala(filas[i])
                        <=> ~calcular_fecha_relativa(year, filas[i].festividad).ok)
        /\ d = parse_festivos_html(year,
                   [texto EXCEPT !.filas = SelectSeq(filas, LAMBDA f : ~FilaMala(f))])

\* the first row of the table is 'Jueves Santo', which nothing resolves, and
\* the row after it, '22 de enero' for Tudela, is the one record of the result
C19_Witness ==
    /\ Llamada("parse_festivos_html")
    /\ texto.hay_tabla
    /\ Len(texto.filas) = 2
    /\ texto.filas[1].celdas = 2
    /\ texto.filas[1].municipio = "Pamplona"
    /\ texto.filas[1].festividad = [forma |-> "liturgico", dia |-> "jueves", fiesta |-> "santo"]
    /\ FilaMala(texto.filas[1])
    /\ texto.filas[2].municipio = "Tudela"
    /\ texto.filas[2].festividad.forma = "fija"
    /\ DOMAIN resultado.valor = {"TUDELA"}
    /\ resultado.valor["TUDELA"][1].fecha = Strftime(<<year, 1, 22>>)
    /\ ~resultado.valor["TUDELA"][1].calculada

----------------------------------------------------------------------------
\* Vocabulary of the properties of a failing collection step

\* what the collector of a step handed over
CapaDe(paso) ==
    CASE paso = "nacionales" -> capas.nac
      [] paso = "autonomicos" -> capas.aut
      [] paso = "locales" -> capas.loc

\* the steps in the order they run, and the position after the last of them
OrdenDePasos == <<"nacionales", "autonomicos", "locales">>

\* the steps that ran before the position pc
PasosHechos ==
    CASE pc = "nacionales" -> {}
      [] pc = "autonomicos" -> {"nacionales"}
      [] pc = "locales" -> {"nacionales", "autonomicos"}
      [] OTHER -> {"nacionales", "autonomicos", "locales"}

\* C20: when a collection step of scrape_festivos_completos raises or returns
\* nothing, the step adds no record and the function goes on: the steps after
\* it still run, the records of the earlier steps stay in the list, and the
\* returned calendar is the merge of what the other steps returned.
C20_CollectorFailureIsolated ==
    /\ errores \subseteq PasosHechos
    /\ \A paso \in errores : CapaDe(paso) = <<>>
    /\ pc = "nacionales" => festivos_todos = <<>>
    /\ pc = "autonomicos" => festivos_todos = capas.nac
    /\ pc = "locales" => festivos_todos = capas.nac \o capas.aut
    /\ pc = "deduplicar" => festivos_todos = Entradas
    /\ Fusionado =>
          /\ festivos_todos = Fusionar(Entradas, ccaa, year)
          /\ Elementos(festivos_todos) \subseteq
                UNION {Elementos(CapaDe(OrdenDePasos[i])) :
                          i \in {j \in 1..3 : OrdenDePasos[j] \notin errores}}
          /\ FechasEn(festivos_todos) = FechasEn(Entradas) \ FestivosSustituidos(ccaa, year)

\* the regional step raised after the national step had returned a record,
\* the local step still ran, and the returned calendar holds a record of
\* each of the two
C20_Witness ==
    /\ Fusionado
    /\ errores = {"autonomicos"}
    /\ \E f \in Elementos(festivos_todos) : f.origen[1] = "nac"
    /\ \E f \in Elementos(festivos_todos) : f.origen[1] = "loc"

----------------------------------------------------------------------------
\* C21: for every compound text '<weekday> anterior|siguiente al <ordinal>
\* <weekday> de <month>' whose ordinal is a word the simple-ordinal family
\* accepts, what calcular_fecha_relativa returns is the result of the compound
\* family, never the date of the inner '<ordinal> <weekday> de <month>' taken
\* alone.
C21_FamilyPrecedence ==
    ( /\ Llamada("calcular_fecha_relativa")
      /\ texto.forma = "compuesto"
      /\ texto.ordinal \in PatronOrdinalesSimple
      /\ resultado.valor.ok )
    =>
    /\ resultado.valor.metodo[1] = "ordinal_compuesto"
    /\ ~( /\ resultado.valor.fecha[1] = year
          /\ resultado.valor.fecha[2] = NumeroDeMes(texto.mes)
          /\ resultado.valor.fecha[3] \in DiasDelOrdinal(year, texto) )

----------------------------------------------------------------------------
\* Vocabulary of the properties of _parsear_festividad

\* the text is '<d> de <month>', one or two digits and one of the 12 month
\* names and nothing else, and the day exists in that month of the year
NombraFechaExistente ==
    /\ texto.forma = "fija"
    /\ Len(texto.digitos) \in {1, 2}
    /\ texto.de
    /\ texto.descripcion = ""
    /\ MesEscrito \in DoceMeses
    /\ DiasEscritos # {}

\* C22: _parsear_festividad tries the fixed date first: a text '<d> de <month>'
\* that names an existing date of the year yields the record of that date with
\* calculada = False and calcular_fecha_relativa is not called for it;
\* calcular_fecha_relativa is called only for texts the fixed-date step did not
\* resolve, and only its results are marked calculada.
C22_FixedBeforeRelative ==
    Llamada("_parsear_festividad")
    =>
    LET festivo == resultado.valor.festivo
        relativa == resultado.valor.relativa
    IN  /\ NombraFechaExistente =>
              /\ festivo # Ninguno
              /\ ~festivo.calculada
              /\ \E d \in DiasEscritos :
                    EsISO(festivo.fecha, year, NumeroDeMes(MesEscrito), d)
              /\ ~relativa
        /\ relativa => (~NombraFechaExistente /\ (festivo = Ninguno \/ festivo.calculada))
        /\ (festivo # Ninguno /\ festivo.calculada) => relativa
        /\ (festivo # Ninguno /\ ~festivo.calculada) => NombraFechaExistente

\* '22 de enero' gave the record of 22 January, not computed, and the relative
\* calculator was not called
C22_Witness ==
    /\ Llamada("_parsear_festividad")
    /\ texto.forma = "fija"
    /\ texto.digitos = <<2, 2>>
    /\ texto.mes = "enero"
    /\ NombraFechaExistente
    /\ resultado.valor.festivo # Ninguno
    /\ resultado.valor.festivo.fecha = Strftime(<<year, 1, 22>>)
    /\ ~resultado.valor.festivo.calculada
    /\ ~resultado.valor.relativa

\* C23: every record of the Navarra local collector has the key
\* 'metodo_calculo' if and only if its 'calculada' is true: the records
\* _parsear_festividad builds, those parse_festivos_html stores, and those
\* _festivo_from_cache rebuilds from an entry of the cache file.
C23_MethodIffComputed ==
    /\ (Llamada("_parsear_festividad") /\ resultado.valor.festivo # Ninguno) =>
          ("metodo_calculo" \in DOMAIN resultado.valor.festivo
              <=> resultado.valor.festivo.calculada)
    /\ Llamada("parse_festivos_html") =>
          \A k \in DOMAIN resultado.valor :
              "metodo_calculo" \in DOMAIN resultado.valor[k][1]
                  <=> resultado.valor[k][1].calculada
    /\ Llamada("_festivo_from_cache") =>
          ("metodo_calculo" \in DOMAIN resultado.valor <=> resultado.valor.calculada)

----------------------------------------------------------------------------
\* Vocabulary of the properties of BasePDFParser

LlamadaAlParser(funcion) == retorno # Pendiente /\ retorno.funcion = funcion

\* the last call returned, it did not raise
Devuelve == retorno # Pendiente /\ retorno.valor.ok

\* the original statement of C24: after any sequence of calls on one instance,
\* the PDF has been loaded at most once and _parse_text has run at most once
C24_Original ==
    /\ contadores.cargas <= 1
    /\ contadores.parseos <= 1

\* C24: after any sequence of parse() and get_festivos_municipio() calls on
\* one BasePDFParser instance at most one parse has completed; the cache holds
\* its result from then on, an empty dict included, and every later call
\* returns from it without loading the PDF or running _parse_text; a call in
\* which _load_pdf or _parse_text raised leaves the cache unset, and the next
\* call loads the PDF again.
C24_ParseOnce ==
    /\ contadores.exitos <= 1
    /\ _cached_festivos.ok <=> contadores.exitos = 1
    /\ _cached_festivos = primer_parse
    /\ contadores.con_cache = 0
    /\ contadores.exitos = 0 => contadores.cargas = contadores.llamadas
    /\ contadores.llamadas > 0 =>
          /\ (~Devuelve) => (~_cached_festivos.ok /\ retorno.cargas = 1)
          /\ Devuelve => _cached_festivos.ok
          /\ (Devuelve /\ LlamadaAlParser("parse")) =>
                retorno.valor.valor = primer_parse.valor
          /\ (Devuelve /\ LlamadaAlParser("get_festivos_municipio")) =>
                retorno.valor.valor =
                    get_festivos_municipio(primer_parse,
                                           [carga |-> TRUE, texto |-> primer_parse],
                                           retorno.argumento).retorno.valor

\* a first call raised in _parse_text, the second parsed an empty dict, and the
\* third returned that empty dict from the cache without loading the PDF
C24_Witness ==
    /\ contadores = [llamadas |-> 3, cargas |-> 2, parseos |-> 2, exitos |-> 1,
                     con_cache |-> 0]
    /\ primer_parse = [ok |-> TRUE, valor |-> <<>>]
    /\ _cached_festivos = primer_parse
    /\ LlamadaAlParser("parse")
    /\ Devuelve
    /\ retorno.valor.valor = <<>>
    /\ retorno.cargas = 0
    /\ retorno.parseos = 0

\* the keys of the parsed dict, and the list stored under one of them
ClavesDe(dict) == {dict[i].clave : i \in 1..Len(dict)}

ListaDe(dict, clave) == dict[CHOOSE i \in 1..Len(dict) : dict[i].clave = clave].festivos

IgualSinCaja(a, b) == str_upper(a) = str_upper(b)

CoincideEnParte(a, b) ==
    EstaEn(str_upper(a), str_upper(b)) \/ EstaEn(str_upper(b), str_upper(a))

\* C25: get_festivos_municipio(m) returns the list stored under a key equal to
\* m but for the case whenever the dict has such a key, also when other keys
\* match m in part and stand before it (the key that is m in upper case when
\* there is one, the first such key otherwise); a key that only contains m or
\* is contained in it is used when no key equals m but for the case, the first
\* of them; the empty list is returned when no key matches.
C25_ExactBeforePartial ==
    (Devuelve /\ LlamadaAlParser("get_festivos_municipio"))
    =>
    LET dict == _cached_festivos.valor
        m == retorno.argumento
        lista == retorno.valor.valor
        iguales == {i \in 1..Len(dict) : IgualSinCaja(dict[i].clave, m)}
        parciales == {i \in 1..Len(dict) : CoincideEnParte(dict[i].clave, m)}
    IN  /\ iguales # {} =>
              /\ \E i \in iguales : lista = dict[i].festivos
              /\ str_upper(m) \in ClavesDe(dict) => lista = ListaDe(dict, str_upper(m))
              /\ str_upper(m) \notin ClavesDe(dict) =>
                    \E i \in iguales : /\ lista = dict[i].festivos
                                       /\ \A j \in iguales : i <= j
        /\ (iguales = {} /\ parciales # {}) =>
              \E i \in parciales : /\ lista = dict[i].festivos
                                   /\ \A j \in parciales : i <= j
        /\ parciales = {} => lista = <<>>

\* the dict holds 'Ab' and then 'A'; the call for 'a' returned the list of 'A',
\* not the list of 'Ab', which contains 'A' and stands first
C25_Witness ==
    /\ Devuelve
    /\ LlamadaAlParser("get_festivos_municipio")
    /\ retorno.argumento = <<"a">>
    /\ Len(_cached_festivos.valor) = 2
    /\ _cached_festivos.valor[1].clave = <<"A", "b">>
    /\ _cached_festivos.valor[2].clave = <<"A">>
    /\ retorno.valor.valor = <<[municipio |-> <<"A">>]>>

----------------------------------------------------------------------------
\* C26: the substitution step takes away the national holiday only: a local or
\* regional record that the de-duplication kept, on a substituted date
\* included, is still in the returned calendar.
C26_OnlyNationalRemoved ==
    Fusionado =>
        \A f \in Elementos(previo) :
            f.tipo \in {"local", "autonomico"} => f \in Elementos(festivos_todos)

\* the number of records of the list on the date
VecesEn(lista, fecha) == Cardinality({i \in 1..Len(lista) : lista[i].fecha = fecha})

\* C27: the merge loses no date: every date of a record some collection step
\* returned is the date of exactly one record of the returned calendar, the
\* dates the substitution table lists for the region and year aside; and
\* every returned record is one of the records the steps returned, as it was
\* returned.
C27_NoDateLost ==
    Fusionado =>
        /\ \A fecha \in FechasEn(Entradas) :
              ~(ReglaSustitucion(ccaa, year) /\ fecha = FechaSustituida)
                  => VecesEn(festivos_todos, fecha) = 1
        /\ Elementos(festivos_todos) \subseteq Elementos(Entradas)

\* the three steps returned records on two dates, one of them twice, with a
\* regional record displaced by a local one; the calendar has one record on
\* each of the two dates
C27_Witness ==
    /\ Fusionado
    /\ ~ReglaSustitucion(ccaa, year)
    /\ Len(Entradas) >= 3
    /\ Cardinality(FechasEn(Entradas)) = 2
    /\ \E f \in Elementos(Entradas) : f \notin Elementos(festivos_todos)
    /\ Len(festivos_todos) = 2
    /\ \E f \in Elementos(festivos_todos) : f.tipo = "local"

----------------------------------------------------------------------------
\* C28: for every year NavarraAutonomicosScraper.scrape returns, without an
\* exception, five regional records, those of Jueves Santo, Viernes Santo and
\* Lunes de Pascua dated 3 and 2 days before and 1 day after Easter Sunday of
\* the year, also when that walk leaves the month of Easter Sunday.
C28_NavarraRegionalFive ==
    Llamada("NavarraAutonomicosScraper.scrape")
    =>
    /\ resultado.valor.ok
    /\ Len(resultado.valor.festivos) = 5
    /\ \A i \in 1..5 : resultado.valor.festivos[i].tipo = "autonomico"
    /\ LET Es(i, k) ==
               LET f == MasDias(PascuaConocida(year), k)
               IN  EsISO(resultado.valor.festivos[i].fecha, f[1], f[2], f[3])
       IN  Es(2, 0 - 3) /\ Es(3, 0 - 2) /\ Es(4, 1)

----------------------------------------------------------------------------
\* C29: when _parsear_fecha accepts a text (its _es_fecha_valida check was
\* positive), the day exists in the month in the year of the parser, and the
\* 'fecha' that _crear_festivo writes for it is the ISO form of a date of the
\* calendar; 31 de febrero and 31 de abril are not accepted.
C29_ValidatedDateExists ==
    (Llamada("_parsear_fecha") /\ resultado.valor.tupla.ok)
    =>
    /\ FechaValida(year, resultado.valor.tupla.mes, resultado.valor.tupla.dia)
    /\ \E m \in 1..12 : \E d \in 1..DiasDelMes(year, m) :
          EsISO(resultado.valor.festivo.fecha, year, m, d)

----------------------------------------------------------------------------
\* C30: for every saint of the SANTORAL table, every weekday and each of
\* siguiente, posterior and anterior, calcular_santoral_relativo resolves
\* '<weekday> de la semana <direction> a <saint>' to a date of the target year
\* on the named weekday, 1 to 7 days after (siguiente, posterior) or before
\* (anterior) the saint's day, and 7 days from it when the saint's day falls
\* on that weekday.
C30_SantoralResolved ==
    ( /\ Llamada("calcular_santoral_relativo")
      /\ texto.conector = "de la semana"
      /\ texto.santo \in DOMAIN SANTORAL )
    =>
    /\ resultado.valor.ok
    /\ LET dia_santo == <<year, SANTORAL[texto.santo][1], SANTORAL[texto.santo][2]>>
           k == DiasEntre(dia_santo, resultado.valor.fecha)
       IN  /\ Weekday(resultado.valor.fecha) = NumeroDeDia(texto.objetivo)
           /\ resultado.valor.fecha[1] = year
           /\ texto.modificador \in {"siguiente", "posterior"} => (1 <= k /\ k <= 7)
           /\ texto.modificador = "anterior" => (1 <= 0 - k /\ 0 - k <= 7)
           /\ Weekday(dia_santo) = NumeroDeDia(texto.objetivo) => Abs(k) = 7

====
